---- MODULE Spec2Model ----
(***************************************************************************)
(* Trading simulation and risk-control engine of senma231/Cryptor.         *)
(*                                                                         *)
(* The drivers are modelled from the source:                               *)
(*   - PaperTrader (src/tools/paper_trading.py): the streaming driver,     *)
(*     with LiveDataMonitor.check_trading_signal as its decision policy;   *)
(*   - run_backtest (src/backtest_worker.py): the batch driver;            *)
(*   - CryptoStrategy.backtest (src/strategies/crypto_strategy.py);        *)
(*   - run_paper_trading (src/paper_trading_worker.py): the replay worker. *)
(*                                                                         *)
(* Python floats are modelled as exact rationals <<n, d>> with d > 0 and   *)
(* gcd(n, d) = 1, so that equal amounts are equal values.                  *)
(***************************************************************************)
EXTENDS Integers, Sequences, FiniteSets, TLC

VARIABLES trader, run, ret, obs, bt, strat, cs, pw

vars == <<trader, run, ret, obs, bt, strat, cs, pw>>

(***************************************************************************)
(* Bounds of the exploration.                                              *)
(***************************************************************************)
MaxCycles == 3     \* polling cycles of PaperTrader.run that are explored
MaxBars == 3       \* bars of a batch run that are explored
MaxCalls == 3      \* direct calls of PaperTrader.buy / PaperTrader.sell

(***************************************************************************)
(* Exact rational arithmetic.                                              *)
(***************************************************************************)
Abs(x) == IF x < 0 THEN -x ELSE x

RECURSIVE GCD(_, _)
GCD(a, b) == IF b = 0 THEN a ELSE GCD(b, a % b)

Norm(n, d) == IF n = 0 THEN <<0, 1>>
              ELSE LET g == GCD(Abs(n), d) IN <<n \div g, d \div g>>

Rat(n) == <<n, 1>>
Zero == <<0, 1>>
One == <<1, 1>>

RMul(a, b) ==
    IF a[1] = 0 \/ b[1] = 0 THEN Zero
    ELSE LET g1 == GCD(Abs(a[1]), b[2])
             g2 == GCD(Abs(b[1]), a[2])
         IN <<(a[1] \div g1) * (b[1] \div g2), (a[2] \div g2) * (b[2] \div g1)>>

\* a / b for b # 0
RDiv(a, b) == IF b[1] > 0 THEN RMul(a, <<b[2], b[1]>>)
              ELSE RMul(a, <<-b[2], -b[1]>>)

RAdd(a, b) ==
    LET g == GCD(a[2], b[2])
        l == (a[2] \div g) * b[2]
    IN Norm(a[1] * (l \div a[2]) + b[1] * (l \div b[2]), l)

RNeg(a) == <<-a[1], a[2]>>
RSub(a, b) == RAdd(a, RNeg(b))
RLeq(a, b) == RSub(a, b)[1] <= 0
RLt(a, b) == RSub(a, b)[1] < 0
RGeq(a, b) == RLeq(b, a)
RGt(a, b) == RLt(b, a)
RAbs(a) == <<Abs(a[1]), a[2]>>

(***************************************************************************)
(* Inputs: prices and signal snapshots.                                    *)
(***************************************************************************)
Prices == {95, 100, 105, 110}

\* The prices of the worked scenarios: an entry at 100, a rise to 110, 115
\* or 150, a fall back to 145.
ScenarioPrices == {100, 110, 115, 145, 150}

\* The indicators are moving averages over the last N bars of 0/1 flags,
\* scaled and truncated: with k bars on which MA1 and MA3 rise, q bars with
\* a strong MACD, j bars on which MA1..MA4 all fall and m bars flagged as
\* overheated, of the last N.
N == 12
HA(k) == (k * 2500 * 16) \div N
QS(q) == -((q * 1500) \div N)
QJ(j) == -((j * 2500 * 40) \div N)
\* WD3 = WOD.round(): half-way values go to the even neighbour.
WD3(m) ==
    LET n == m * 350
        f == n \div N
    IN IF 2 * (n % N) > N \/ (2 * (n % N) = N /\ f % 2 = 1) THEN f + 1 ELSE f

\* Flag counts that a price history can produce: a bar cannot both rise and
\* fall (k + j <= N, q + j <= N), a strong bar is not overheated, and a bar
\* is flagged as overheated when more than half of its own N bars fell.
SignalCounts ==
    { [k |-> 0,  q |-> 0,  j |-> 0, m |-> 0],
      [k |-> 12, q |-> 12, j |-> 0, m |-> 0],
      [k |-> 0,  q |-> 0,  j |-> 9, m |-> 3],
      [k |-> 6,  q |-> 0,  j |-> 4, m |-> 0],
      [k |-> 0,  q |-> 0,  j |-> 4, m |-> 9] }

\* A signal snapshot read from a row of SignalCalculator.calculate_signals
\* or from SignalCalculator.get_latest_signals.
Signals ==
    { [HA |-> HA(c.k), QS |-> QS(c.q), QJ |-> QJ(c.j), WD3 |-> WD3(c.m)] : c \in SignalCounts }

\* A snapshot returned by LiveDataMonitor.calculate_live_signals, which sets
\* WD3 to the constant 100.
LiveSignals ==
    { [HA |-> HA(c.k), QS |-> QS(c.q), QJ |-> QJ(c.j), WD3 |-> 100] : c \in SignalCounts }

\* Python's None: a record for a missing object, 0 for a missing price (the
\* loop tests `if signals and price`, and None and 0.0 are both falsy).
None == [none |-> TRUE]
NoPrice == 0
NoAction == "None"

(***************************************************************************)
(* Trading conditions: DEFAULT_STRATEGY_PARAMS of tools/crypto_config.py,  *)
(* and a configuration saved with the tuner (update_buy_condition,         *)
(* update_sell_condition).  load_strategy_params returns the saved         *)
(* configuration.                                                          *)
(***************************************************************************)
HA_threshold == 25000
WD3_max == 150
QS_threshold == 1250
QJ_threshold == 50000
WD3_threshold == 200

DEFAULT_STRATEGY_PARAMS ==
    [ HA_threshold |-> HA_threshold, WD3_max |-> WD3_max, QS_threshold |-> QS_threshold,
      QJ_threshold |-> QJ_threshold, WD3_threshold |-> WD3_threshold ]

StrategyTuner_params ==
    [DEFAULT_STRATEGY_PARAMS EXCEPT !.HA_threshold = 15000, !.QJ_threshold = 30000]

load_strategy_params == {DEFAULT_STRATEGY_PARAMS, StrategyTuner_params}

InitialCapital == 10000
\* --capital / params['capital'] is any number the caller passes; neither
\* entry point validates it.
Capitals == {0, InitialCapital}
\* What Python raises when a float or an int is divided by zero.
ZeroDivisionError == [raised |-> "ZeroDivisionError"]

(***************************************************************************)
(* PaperTrader                                                             *)
(***************************************************************************)
PaperTrader_init(market_type, initial_capital, enable_fees, enable_slippage, enable_stop_loss, enable_take_profit) ==
    [ market_type        |-> market_type,
      initial_capital    |-> Rat(initial_capital),
      capital            |-> Rat(initial_capital),
      position           |-> Zero,
      entry_price        |-> Zero,
      trades             |-> <<>>,
      enable_fees        |-> enable_fees,
      enable_slippage    |-> enable_slippage,
      fee_rate_spot      |-> <<1, 1000>>,
      fee_rate_futures   |-> <<1, 2500>>,
      slippage_rate      |-> <<1, 2000>>,
      enable_stop_loss   |-> enable_stop_loss,
      enable_take_profit |-> enable_take_profit,
      take_profit_rate   |-> <<1, 10>>,
      stop_loss_rate     |-> <<1, 20>>,
      trailing_stop_rate |-> <<3, 100>>,
      highest_price      |-> Zero,
      total_fees         |-> Zero,
      stop_loss_count    |-> 0,
      take_profit_count  |-> 0,
      params             |-> DEFAULT_STRATEGY_PARAMS ]

\* A fee rate that ignores the market type.
PaperTrader_get_fee_rate_futures(self) ==
    IF ~self.enable_fees THEN Zero ELSE self.fee_rate_futures

PaperTrader_get_fee_rate(self) ==
    IF ~self.enable_fees THEN Zero
    ELSE IF self.market_type = "futures" THEN self.fee_rate_futures
    ELSE self.fee_rate_spot

PaperTrader_apply_slippage(self, price, is_buy) ==
    IF ~self.enable_slippage THEN price
    ELSE IF is_buy THEN RMul(price, RAdd(One, self.slippage_rate))
    ELSE RMul(price, RSub(One, self.slippage_rate))

\* Returns the updated trader (highest_price) and the two flags.
\* A check that knows the fixed stop only.
PaperTrader_check_stop_conditions_fixed_only(self, current_price) ==
    IF self.position = Zero
    THEN [self |-> self, take_profit_triggered |-> FALSE, stop_loss_triggered |-> FALSE]
    ELSE
      LET self1 == IF RGt(current_price, self.highest_price)
                   THEN [self EXCEPT !.highest_price = current_price]
                   ELSE self
          pnl_rate == RDiv(RSub(current_price, self1.entry_price), self1.entry_price)
      IN [self |-> self1,
          take_profit_triggered |->
              self1.enable_take_profit /\ RGeq(pnl_rate, self1.take_profit_rate),
          stop_loss_triggered |->
              self1.enable_stop_loss /\ RLeq(pnl_rate, RNeg(self1.stop_loss_rate))]

PaperTrader_check_stop_conditions(self, current_price) ==
    IF self.position = Zero
    THEN [self |-> self, take_profit_triggered |-> FALSE, stop_loss_triggered |-> FALSE]
    ELSE
      LET self1 == IF RGt(current_price, self.highest_price)
                   THEN [self EXCEPT !.highest_price = current_price]
                   ELSE self
          pnl_rate == RDiv(RSub(current_price, self1.entry_price), self1.entry_price)
          take_profit_triggered ==
              self1.enable_take_profit /\ RGeq(pnl_rate, self1.take_profit_rate)
          fixed == RLeq(pnl_rate, RNeg(self1.stop_loss_rate))
          trailing ==
              /\ RGt(self1.highest_price, self1.entry_price)
              /\ RGeq(RDiv(RSub(self1.highest_price, current_price), self1.highest_price),
                      self1.trailing_stop_rate)
          stop_loss_triggered == self1.enable_stop_loss /\ (fixed \/ trailing)
      IN [self |-> self1,
          take_profit_triggered |-> take_profit_triggered,
          stop_loss_triggered |-> stop_loss_triggered]

\* A buy that records its fee in the ledger without adding it to
\* total_fees.
PaperTrader_buy_execute_fee_not_accumulated(self, price, reason, now) ==
    LET actual_price == PaperTrader_apply_slippage(self, price, TRUE)
        fee_rate == PaperTrader_get_fee_rate(self)
        fee == RMul(self.capital, fee_rate)
        available_capital == RSub(self.capital, fee)
        position == RDiv(available_capital, actual_price)
        trade == [ time |-> now, action |-> "BUY", price |-> price,
                   actual_price |-> actual_price,
                   slippage |-> RSub(actual_price, price),
                   amount |-> position, fee |-> fee,
                   capital_before |-> self.capital, reason |-> reason ]
    IN [self EXCEPT !.position = position,
                    !.entry_price = actual_price,
                    !.highest_price = actual_price,
                    !.trades = Append(self.trades, trade)]

\* The body of buy after the position guard.
PaperTrader_buy_execute(self, price, reason, now) ==
    LET actual_price == PaperTrader_apply_slippage(self, price, TRUE)
        fee_rate == PaperTrader_get_fee_rate(self)
        fee == RMul(self.capital, fee_rate)
        available_capital == RSub(self.capital, fee)
        position == RDiv(available_capital, actual_price)
        trade == [ time |-> now, action |-> "BUY", price |-> price,
                   actual_price |-> actual_price,
                   slippage |-> RSub(actual_price, price),
                   amount |-> position, fee |-> fee,
                   capital_before |-> self.capital, reason |-> reason ]
    IN [self EXCEPT !.total_fees = RAdd(self.total_fees, fee),
                    !.position = position,
                    !.entry_price = actual_price,
                    !.highest_price = actual_price,
                    !.trades = Append(self.trades, trade)]

\* A buy that does not test for an open position.
PaperTrader_buy_unguarded(self, price, reason, now) ==
    [self |-> PaperTrader_buy_execute(self, price, reason, now), result |-> TRUE]

\* buy logs a warning, returns False and changes nothing when a position is
\* open; nothing is raised.
PaperTrader_buy(self, price, reason, now) ==
    IF RGt(self.position, Zero)
    THEN [self |-> self, result |-> FALSE]
    ELSE [self |-> PaperTrader_buy_execute(self, price, reason, now), result |-> TRUE]

\* The assignments of buy and of sell in the order of their statements.
PaperTrader_buy_statements ==
    <<"total_fees", "position", "entry_price", "highest_price", "trades">>

PaperTrader_sell_statements ==
    <<"total_fees", "capital", "trades", "position", "entry_price", "highest_price">>

\* A sell that credits the profit or loss of the trade instead of its
\* proceeds.
PaperTrader_sell_credits_pnl(self, price, reason, now) ==
    IF self.position = Zero \/ self.entry_price = Zero \/ self.trades = <<>>
    THEN [self |-> self, result |-> FALSE, raised |-> "none"]
    ELSE
      LET actual_price == PaperTrader_apply_slippage(self, price, FALSE)
          sell_amount == RMul(self.position, actual_price)
          fee == RMul(sell_amount, PaperTrader_get_fee_rate(self))
          capital == RSub(sell_amount, fee)
          pnl == RDiv(RSub(actual_price, self.entry_price), self.entry_price)
          pnl_amount == RSub(capital, self.capital)
          trade == [ time |-> now, action |-> "SELL", price |-> price,
                     actual_price |-> actual_price,
                     slippage |-> RSub(price, actual_price),
                     amount |-> self.position, fee |-> fee,
                     capital |-> pnl_amount, pnl |-> RMul(pnl, Rat(100)),
                     pnl_amount |-> pnl_amount, reason |-> reason ]
      IN [self |-> [self EXCEPT !.total_fees = RAdd(self.total_fees, fee),
                                !.capital = pnl_amount,
                                !.trades = Append(self.trades, trade),
                                !.position = Zero,
                                !.entry_price = Zero,
                                !.highest_price = Zero],
          result |-> TRUE, raised |-> "none"]

\* sell returns False and changes nothing when flat.  After total_fees and
\* capital are assigned, pnl divides by self.entry_price and pnl_amount
\* reads self.trades[-1]['capital_before']: a ZeroDivisionError on a zero
\* entry price, an IndexError on an empty ledger, a KeyError when the last
\* record is not a BUY.
PaperTrader_sell(self, price, reason, now) ==
    IF self.position = Zero
    THEN [self |-> self, result |-> FALSE, raised |-> "none"]
    ELSE IF \/ self.entry_price = Zero \/ self.trades = <<>>
            \/ self.trades[Len(self.trades)].action # "BUY"
    THEN LET actual_price == PaperTrader_apply_slippage(self, price, FALSE)
             sell_amount == RMul(self.position, actual_price)
             fee == RMul(sell_amount, PaperTrader_get_fee_rate(self))
         IN [self |-> [self EXCEPT !.total_fees = RAdd(self.total_fees, fee),
                                   !.capital = RSub(sell_amount, fee)],
             result |-> FALSE,
             raised |-> IF self.entry_price = Zero THEN "ZeroDivisionError"
                        ELSE IF self.trades = <<>> THEN "IndexError"
                        ELSE "KeyError"]
    ELSE
      LET actual_price == PaperTrader_apply_slippage(self, price, FALSE)
          sell_amount == RMul(self.position, actual_price)
          fee_rate == PaperTrader_get_fee_rate(self)
          fee == RMul(sell_amount, fee_rate)
          capital == RSub(sell_amount, fee)
          pnl == RDiv(RSub(actual_price, self.entry_price), self.entry_price)
          pnl_amount == RSub(capital, self.trades[Len(self.trades)].capital_before)
          trade == [ time |-> now, action |-> "SELL", price |-> price,
                     actual_price |-> actual_price,
                     slippage |-> RSub(price, actual_price),
                     amount |-> self.position, fee |-> fee,
                     capital |-> capital, pnl |-> RMul(pnl, Rat(100)),
                     pnl_amount |-> pnl_amount, reason |-> reason ]
      IN [self |-> [self EXCEPT !.total_fees = RAdd(self.total_fees, fee),
                                !.capital = capital,
                                !.trades = Append(self.trades, trade),
                                !.position = Zero,
                                !.entry_price = Zero,
                                !.highest_price = Zero],
          result |-> TRUE, raised |-> "none"]

Count(seq, P(_)) == Cardinality({k \in 1..Len(seq) : P(seq[k])})

\* A get_performance that reports the number of ledger records.
PaperTrader_get_performance_all_records(self) ==
    IF self.trades = <<>> THEN None
    ELSE IF self.initial_capital = Zero THEN ZeroDivisionError
    ELSE
      LET buy_count == Len(self.trades)
          wins == Count(self.trades, LAMBDA t : "pnl" \in DOMAIN t /\ RGt(t.pnl, Zero))
          losses == Count(self.trades, LAMBDA t : "pnl" \in DOMAIN t /\ RLt(t.pnl, Zero))
          max_buy_count == IF buy_count > 1 THEN buy_count ELSE 1
      IN [ total_trades      |-> buy_count,
           wins              |-> wins,
           losses            |-> losses,
           win_rate          |-> RMul(Norm(wins, max_buy_count), Rat(100)),
           return_pct        |-> RMul(RDiv(RSub(self.capital, self.initial_capital),
                                           self.initial_capital), Rat(100)),
           initial_capital   |-> self.initial_capital,
           final_capital     |-> self.capital,
           total_fees        |-> self.total_fees,
           fee_rate_pct      |-> RMul(RDiv(self.total_fees, self.initial_capital), Rat(100)),
           stop_loss_count   |-> self.stop_loss_count,
           take_profit_count |-> self.take_profit_count ]

\* get_performance returns None on an empty ledger and changes nothing.
PaperTrader_get_performance(self) ==
    IF self.trades = <<>> THEN None
    ELSE IF self.initial_capital = Zero THEN ZeroDivisionError
    ELSE
      LET buy_count == Count(self.trades, LAMBDA t : t.action = "BUY")
          wins == Count(self.trades, LAMBDA t : "pnl" \in DOMAIN t /\ RGt(t.pnl, Zero))
          losses == Count(self.trades, LAMBDA t : "pnl" \in DOMAIN t /\ RLt(t.pnl, Zero))
          max_buy_count == IF buy_count > 1 THEN buy_count ELSE 1
      IN [ total_trades      |-> buy_count,
           wins              |-> wins,
           losses            |-> losses,
           win_rate          |-> RMul(Norm(wins, max_buy_count), Rat(100)),
           return_pct        |-> RMul(RDiv(RSub(self.capital, self.initial_capital),
                                           self.initial_capital), Rat(100)),
           initial_capital   |-> self.initial_capital,
           final_capital     |-> self.capital,
           total_fees        |-> self.total_fees,
           fee_rate_pct      |-> RMul(RDiv(self.total_fees, self.initial_capital), Rat(100)),
           stop_loss_count   |-> self.stop_loss_count,
           take_profit_count |-> self.take_profit_count ]

\* A get_performance that empties the ledger once it has reported.
PaperTrader_get_performance_call_and_clear(self) ==
    [ self   |-> [self EXCEPT !.trades = <<>>],
      result |-> PaperTrader_get_performance(self) ]

\* A call of get_performance: the object after the call and the value
\* returned.  The method assigns to no attribute of self.
PaperTrader_get_performance_call(self) ==
    [ self   |-> self,
      result |-> PaperTrader_get_performance(self) ]

(***************************************************************************)
(* LiveDataMonitor.check_trading_signal: the buy group is tested first.    *)
(***************************************************************************)
LiveDataMonitor_check_trading_signal(params, signals) ==
    IF signals.HA > params.HA_threshold /\ signals.WD3 < params.WD3_max THEN "BUY"
    ELSE IF Abs(signals.QJ) > params.QJ_threshold \/ signals.WD3 > params.WD3_threshold
    THEN "SELL"
    ELSE NoAction

(***************************************************************************)
(* One polling cycle of PaperTrader.run on which both the price and the    *)
(* signals were obtained (the body of `if signals and price`).  The result *)
(* tells whether the cycle ended with `continue` (the wait is skipped)     *)
(* and whether the decision policy was consulted.                          *)
(***************************************************************************)
\* An exit that tests the stop-loss before the take-profit.
PaperTrader_run_stop_exit_stop_first(self, chk, price, now) ==
    IF chk.stop_loss_triggered
    THEN
      LET self1 == [chk.self EXCEPT !.stop_loss_count = @ + 1]
          pnl == RDiv(RSub(price, self1.entry_price), self1.entry_price)
      IN IF RLeq(pnl, RNeg(self1.stop_loss_rate))
         THEN PaperTrader_sell(self1, price, "STOP_LOSS_FIXED", now).self
         ELSE PaperTrader_sell(self1, price, "STOP_LOSS_TRAILING", now).self
    ELSE PaperTrader_sell([chk.self EXCEPT !.take_profit_count = @ + 1],
                          price, "TAKE_PROFIT", now).self

PaperTrader_run_stop_exit(self, chk, price, now) ==
    IF chk.take_profit_triggered
    THEN PaperTrader_sell([chk.self EXCEPT !.take_profit_count = @ + 1],
                          price, "TAKE_PROFIT", now).self
    ELSE
      LET self1 == [chk.self EXCEPT !.stop_loss_count = @ + 1]
          pnl == RDiv(RSub(price, self1.entry_price), self1.entry_price)
      IN IF RLeq(pnl, RNeg(self1.stop_loss_rate))
         THEN PaperTrader_sell(self1, price, "STOP_LOSS_FIXED", now).self
         ELSE PaperTrader_sell(self1, price, "STOP_LOSS_TRAILING", now).self

PaperTrader_run_execute(self, action, price, now) ==
    IF action = "BUY" /\ self.position = Zero
    THEN PaperTrader_buy(self, price, "SIGNAL", now).self
    ELSE IF action = "SELL" /\ RGt(self.position, Zero)
    THEN PaperTrader_sell(self, price, "SIGNAL", now).self
    ELSE self

\* A cycle that lets a policy SELL pre-empt the risk-control exits.
PaperTrader_run_cycle_signal_first(self, price, signals, now) ==
    LET chk == PaperTrader_check_stop_conditions(self, price)
        action == LiveDataMonitor_check_trading_signal(self.params, signals)
    IN IF RGt(self.position, Zero) /\ action = "SELL"
       THEN [self |-> PaperTrader_sell(chk.self, price, "SIGNAL", now).self,
             continued |-> FALSE, consulted |-> TRUE, action |-> action]
       ELSE IF RGt(self.position, Zero)
               /\ (chk.take_profit_triggered \/ chk.stop_loss_triggered)
       THEN [self |-> PaperTrader_run_stop_exit(self, chk, price, now),
             continued |-> TRUE, consulted |-> FALSE, action |-> NoAction]
       ELSE [self |-> PaperTrader_run_execute(chk.self, action, price, now),
             continued |-> FALSE, consulted |-> TRUE, action |-> action]

PaperTrader_run_cycle(self, price, signals, now) ==
    LET chk == PaperTrader_check_stop_conditions(self, price)
    IN IF RGt(self.position, Zero)
          /\ (chk.take_profit_triggered \/ chk.stop_loss_triggered)
       THEN [self |-> PaperTrader_run_stop_exit(self, chk, price, now),
             continued |-> TRUE, consulted |-> FALSE, action |-> NoAction]
       ELSE LET action == LiveDataMonitor_check_trading_signal(self.params, signals)
            IN [self |-> PaperTrader_run_execute(chk.self, action, price, now),
                continued |-> FALSE, consulted |-> TRUE, action |-> action]

(***************************************************************************)
(* run_backtest (backtest_worker.py): the batch loop over the rows of the  *)
(* signal frame from start_index on.  A row is [stime, close, HA, QS, QJ,  *)
(* WD3]; the locals of the function are the fields of the record.          *)
(***************************************************************************)
run_backtest_init(capital, strategy_params) ==
    [ strategy_params |-> strategy_params,
      initial_capital |-> Rat(capital),
      current_capital |-> Rat(capital),
      position        |-> Zero,
      entry_price     |-> Zero,
      trades          |-> <<>> ]

\* A loop whose sell records the return without compounding the capital.
run_backtest_bar_uncompounded(l, row) ==
    LET close == Rat(row.close)
        buy_params == l.strategy_params
        sell_params == l.strategy_params
    IN IF l.position = Zero /\ row.HA > buy_params.HA_threshold
          /\ row.WD3 < buy_params.WD3_max
       THEN [l EXCEPT !.position = RDiv(l.current_capital, close),
                      !.entry_price = close,
                      !.trades = Append(@, [ time |-> row.stime, action |-> "BUY",
                                             price |-> close,
                                             capital |-> l.current_capital ])]
       ELSE IF RGt(l.position, Zero)
               /\ (Abs(row.QJ) > sell_params.QJ_threshold
                   \/ row.WD3 > sell_params.WD3_threshold)
       THEN LET pnl == RDiv(RSub(close, l.entry_price), l.entry_price)
            IN [l EXCEPT !.trades = Append(@, [ time |-> row.stime, action |-> "SELL",
                                                price |-> close,
                                                capital |-> l.current_capital,
                                                pnl |-> RMul(pnl, Rat(100)) ]),
                         !.position = Zero,
                         !.entry_price = Zero]
       ELSE l

run_backtest_bar(l, row) ==
    LET close == Rat(row.close)
        buy_params == l.strategy_params
        sell_params == l.strategy_params
    IN IF l.position = Zero /\ row.HA > buy_params.HA_threshold
          /\ row.WD3 < buy_params.WD3_max
       THEN [l EXCEPT !.position = RDiv(l.current_capital, close),
                      !.entry_price = close,
                      !.trades = Append(@, [ time |-> row.stime, action |-> "BUY",
                                             price |-> close,
                                             capital |-> l.current_capital ])]
       ELSE IF RGt(l.position, Zero)
               /\ (Abs(row.QJ) > sell_params.QJ_threshold
                   \/ row.WD3 > sell_params.WD3_threshold)
       THEN LET pnl == RDiv(RSub(close, l.entry_price), l.entry_price)
                current_capital == RMul(l.current_capital, RAdd(One, pnl))
            IN [l EXCEPT !.current_capital = current_capital,
                         !.trades = Append(@, [ time |-> row.stime, action |-> "SELL",
                                                price |-> close,
                                                capital |-> current_capital,
                                                pnl |-> RMul(pnl, Rat(100)) ]),
                         !.position = Zero,
                         !.entry_price = Zero]
       ELSE l

\* After the loop: close an open position at the close of the last row.
run_backtest_close(l, last) ==
    IF RGt(l.position, Zero)
    THEN LET final_price == Rat(last.close)
             pnl == RDiv(RSub(final_price, l.entry_price), l.entry_price)
             current_capital == RMul(l.current_capital, RAdd(One, pnl))
         IN [l EXCEPT !.current_capital = current_capital,
                      !.trades = Append(@, [ time |-> last.stime, action |-> "SELL (END)",
                                             price |-> final_price,
                                             capital |-> current_capital,
                                             pnl |-> RMul(pnl, Rat(100)) ])]
    ELSE l

run_backtest_result(l) ==
    IF l.initial_capital = Zero THEN ZeroDivisionError ELSE
    LET total_trades == Count(l.trades, LAMBDA t : t.action = "BUY")
        winning_trades == Count(l.trades, LAMBDA t : "pnl" \in DOMAIN t /\ RGt(t.pnl, Zero))
        losing_trades == Count(l.trades, LAMBDA t : "pnl" \in DOMAIN t /\ RLt(t.pnl, Zero))
    IN [ initial_capital |-> l.initial_capital,
         final_capital   |-> l.current_capital,
         return_pct      |-> RMul(RDiv(RSub(l.current_capital, l.initial_capital),
                                       l.initial_capital), Rat(100)),
         total_trades    |-> total_trades,
         winning_trades  |-> winning_trades,
         losing_trades   |-> losing_trades,
         win_rate        |-> IF total_trades > 0
                             THEN RMul(Norm(winning_trades, total_trades), Rat(100))
                             ELSE Zero,
         trades          |-> l.trades ]

(***************************************************************************)
(* run_paper_trading (paper_trading_worker.py): the replay of the stored   *)
(* bars.  The locals of the function are the fields of the record; events  *)
(* is the sequence of JSON lines printed to the observer.  The signal rows *)
(* are those of SignalCalculator.calculate_signals, whose columns are      *)
(* period, stime, the moving averages and the indicators.                  *)
(***************************************************************************)
start_idx == 50

\* pandas Series.get(key, default)
Series_get(row, key, default) == IF key \in DOMAIN row THEN row[key] ELSE default

run_paper_trading_init(capital) ==
    [ capital         |-> Rat(capital),
      current_capital |-> Rat(capital),
      position        |-> None,
      trades          |-> <<>>,
      events          |-> <<>> ]

\* One iteration of `for i in range(start_idx, len(data))`.
run_paper_trading_bar(l, i, current_bar, current_signal) ==
    LET current_price == Rat(current_bar.close)
        current_time == current_bar.stime
        buy_signal == Series_get(current_signal, "buy_signal", 0)
        sell_signal == Series_get(current_signal, "sell_signal", 0)
        l1 == IF l.position = None /\ buy_signal > 0
              THEN [l EXCEPT !.position = [ entry_price |-> current_price,
                                            entry_time |-> current_time,
                                            amount |-> RDiv(l.current_capital,
                                                            current_price) ],
                             !.trades = Append(@, [ time |-> current_time,
                                                    action |-> "BUY",
                                                    price |-> current_price,
                                                    capital |-> l.current_capital ]),
                             !.events = Append(@, [ type |-> "trade", action |-> "BUY",
                                                    price |-> current_price,
                                                    capital |-> l.current_capital,
                                                    time |-> current_time ])]
              ELSE IF l.position # None /\ sell_signal > 0
              THEN LET exit_value == RMul(l.position.amount, current_price)
                       pnl == RMul(RDiv(RSub(exit_value, l.current_capital),
                                        l.current_capital), Rat(100))
                   IN [l EXCEPT !.current_capital = exit_value,
                                !.trades = Append(@, [ time |-> current_time,
                                                       action |-> "SELL",
                                                       price |-> current_price,
                                                       capital |-> exit_value,
                                                       pnl |-> pnl ]),
                                !.events = Append(@, [ type |-> "trade",
                                                       action |-> "SELL",
                                                       price |-> current_price,
                                                       capital |-> exit_value,
                                                       pnl |-> pnl,
                                                       time |-> current_time ]),
                                !.position = None]
              ELSE l
    IN IF i % 10 = 0
       THEN [l1 EXCEPT !.events = Append(@, [ type |-> "heartbeat",
                                              price |-> current_price,
                                              capital |-> l1.current_capital,
                                              position |-> l1.position # None,
                                              time |-> current_time ])]
       ELSE l1

\* After the loop: an open position is closed at the last close and the
\* complete event is printed.
run_paper_trading_end(l, last) ==
    LET l1 == IF l.position # None
              THEN LET final_price == Rat(last.close)
                       exit_value == RMul(l.position.amount, final_price)
                       pnl == RMul(RDiv(RSub(exit_value, l.current_capital),
                                        l.current_capital), Rat(100))
                   IN [l EXCEPT !.current_capital = exit_value,
                                !.events = Append(@, [ type |-> "trade",
                                                       action |-> "SELL (END)",
                                                       price |-> final_price,
                                                       capital |-> exit_value,
                                                       pnl |-> pnl,
                                                       time |-> last.stime ])]
              ELSE l
        total_return == RMul(RDiv(RSub(l1.current_capital, l1.capital), l1.capital),
                             Rat(100))
    IN [l1 EXCEPT !.events = Append(@, [ type |-> "complete",
                                         initial_capital |-> l1.capital,
                                         final_capital |-> l1.current_capital,
                                         return_pct |-> total_return,
                                         total_trades |-> Len(l1.trades) ])]

(***************************************************************************)
(* CryptoStrategy (strategies/crypto_strategy.py).  `self` is the strategy *)
(* instance; the locals of backtest are a second record.                   *)
(***************************************************************************)
CryptoStrategy_init ==
    [ take_profit_rate   |-> <<1, 10>>,
      stop_loss_rate     |-> <<1, 20>>,
      trailing_stop      |-> TRUE,
      trailing_stop_rate |-> <<3, 100>>,
      position           |-> 0,
      last_signal        |-> "",
      trade_count        |-> 0,
      entry_price        |-> Zero,
      highest_price      |-> Zero,
      lowest_price       |-> Zero ]

CryptoStrategy_execute_buy(self) ==
    [self EXCEPT !.position = 1, !.last_signal = "BUY", !.trade_count = @ + 1]

CryptoStrategy_execute_sell(self) ==
    [self EXCEPT !.position = 0, !.last_signal = "SELL", !.trade_count = @ + 1]

\* The thresholds are literals of _analyze_signals.
CryptoStrategy_analyze_signals(self, s) ==
    LET buy_signal == s.HA > 33000 /\ Abs(s.QS) > 1250 /\ s.WD3 < 100
                      /\ self.position = 0
        sell_signal == (Abs(s.QJ) > 70000 \/ s.WD3 > 233) /\ self.position > 0
    IN IF buy_signal THEN CryptoStrategy_execute_buy(self)
       ELSE IF sell_signal THEN CryptoStrategy_execute_sell(self)
       ELSE self

\* on_bar ignores the bar and reads the latest signals; None stands for an
\* empty frame or a missing 1h / 1d row.
CryptoStrategy_on_bar(self, s) ==
    IF s = None THEN self ELSE CryptoStrategy_analyze_signals(self, s)

\* A check that tracks the last price instead of the extremes.
CryptoStrategy_check_stop_conditions_last_price(self, current_price) ==
    IF self.position = 0 \/ self.entry_price = Zero
    THEN [self |-> self, take_profit_triggered |-> FALSE, stop_loss_triggered |-> FALSE]
    ELSE
      LET self2 == [self EXCEPT !.highest_price = current_price,
                                !.lowest_price = current_price]
          profit_rate == RDiv(RSub(current_price, self2.entry_price), self2.entry_price)
      IN [self |-> self2,
          take_profit_triggered |-> RGeq(profit_rate, self2.take_profit_rate),
          stop_loss_triggered |-> RLeq(profit_rate, RNeg(self2.stop_loss_rate))]

CryptoStrategy_check_stop_conditions(self, current_price) ==
    IF self.position = 0 \/ self.entry_price = Zero
    THEN [self |-> self, take_profit_triggered |-> FALSE, stop_loss_triggered |-> FALSE]
    ELSE
      LET self1 == IF RGt(current_price, self.highest_price)
                   THEN [self EXCEPT !.highest_price = current_price]
                   ELSE self
          self2 == IF RLt(current_price, self1.lowest_price) \/ self1.lowest_price = Zero
                   THEN [self1 EXCEPT !.lowest_price = current_price]
                   ELSE self1
          profit_rate == RDiv(RSub(current_price, self2.entry_price), self2.entry_price)
          take_profit_triggered == RGeq(profit_rate, self2.take_profit_rate)
          fixed == RLeq(profit_rate, RNeg(self2.stop_loss_rate))
          trailing ==
              /\ self2.trailing_stop
              /\ RGt(self2.highest_price, self2.entry_price)
              /\ RGeq(RDiv(RSub(self2.highest_price, current_price), self2.highest_price),
                      self2.trailing_stop_rate)
      IN [self |-> self2,
          take_profit_triggered |-> take_profit_triggered,
          stop_loss_triggered |-> fixed \/ trailing]

CryptoStrategy_backtest_init(enable_stop_loss, enable_take_profit) ==
    [ enable_stop_loss   |-> enable_stop_loss,
      enable_take_profit |-> enable_take_profit,
      position           |-> 0,
      trades             |-> <<>>,
      stop_loss_count    |-> 0,
      take_profit_count  |-> 0 ]

CryptoStrategy_reset_tracking(self) ==
    [self EXCEPT !.entry_price = Zero, !.highest_price = Zero, !.lowest_price = Zero]

\* An exit test that ignores the enable_stop_loss and enable_take_profit
\* arguments of backtest.
CryptoStrategy_backtest_exit_due_ungated(l, chk) ==
    chk.take_profit_triggered \/ chk.stop_loss_triggered

\* `if enable_take_profit and take_profit_triggered` and
\* `if enable_stop_loss and stop_loss_triggered`: a triggered condition
\* closes the position only when its toggle is on.
CryptoStrategy_backtest_exit_due(l, chk) ==
    \/ l.enable_take_profit /\ chk.take_profit_triggered
    \/ l.enable_stop_loss /\ chk.stop_loss_triggered

\* One iteration of the loop of backtest over bar [stime, close]; s is what
\* get_latest_signals returns when on_bar is reached.
\* An exit that appends its SELL without counting it.
CryptoStrategy_backtest_stop_exit_uncounted(self, l, chk, bar) ==
    [self |-> CryptoStrategy_reset_tracking(chk.self),
     l |-> [l EXCEPT !.position = 0,
                     !.trades = Append(@, [ time |-> bar.stime, action |-> "SELL",
                                            price |-> Rat(bar.close),
                                            reason |-> IF l.enable_take_profit
                                                          /\ chk.take_profit_triggered
                                                       THEN "TAKE_PROFIT"
                                                       ELSE "STOP_LOSS" ])]]

CryptoStrategy_backtest_stop_exit(self, l, chk, bar) ==
    IF l.enable_take_profit /\ chk.take_profit_triggered
    THEN [self |-> CryptoStrategy_reset_tracking(chk.self),
          l |-> [l EXCEPT !.position = 0,
                          !.trades = Append(@, [ time |-> bar.stime, action |-> "SELL",
                                                 price |-> Rat(bar.close),
                                                 reason |-> "TAKE_PROFIT" ]),
                          !.take_profit_count = @ + 1]]
    ELSE [self |-> CryptoStrategy_reset_tracking(chk.self),
          l |-> [l EXCEPT !.position = 0,
                          !.trades = Append(@, [ time |-> bar.stime, action |-> "SELL",
                                                 price |-> Rat(bar.close),
                                                 reason |-> "STOP_LOSS" ]),
                          !.stop_loss_count = @ + 1]]

\* A recording step whose BUY leaves the tracked highest price untouched.
CryptoStrategy_backtest_record_no_peak(self, l, bar) ==
    LET current_price == Rat(bar.close)
    IN IF self.last_signal = "BUY" /\ l.position = 0
       THEN [self |-> [self EXCEPT !.entry_price = current_price,
                                   !.lowest_price = current_price,
                                   !.last_signal = ""],
             l |-> [l EXCEPT !.position = 1,
                             !.trades = Append(@, [ time |-> bar.stime, action |-> "BUY",
                                                    price |-> current_price,
                                                    reason |-> "SIGNAL" ])]]
       ELSE IF self.last_signal = "SELL" /\ l.position > 0
       THEN [self |-> [CryptoStrategy_reset_tracking(self) EXCEPT !.last_signal = ""],
             l |-> [l EXCEPT !.position = 0,
                             !.trades = Append(@, [ time |-> bar.stime, action |-> "SELL",
                                                    price |-> current_price,
                                                    reason |-> "SIGNAL" ])]]
       ELSE [self |-> [self EXCEPT !.last_signal = ""], l |-> l]

CryptoStrategy_backtest_record(self, l, bar) ==
    LET current_price == Rat(bar.close)
    IN IF self.last_signal = "BUY" /\ l.position = 0
       THEN [self |-> [self EXCEPT !.entry_price = current_price,
                                   !.highest_price = current_price,
                                   !.lowest_price = current_price,
                                   !.last_signal = ""],
             l |-> [l EXCEPT !.position = 1,
                             !.trades = Append(@, [ time |-> bar.stime, action |-> "BUY",
                                                    price |-> current_price,
                                                    reason |-> "SIGNAL" ])]]
       ELSE IF self.last_signal = "SELL" /\ l.position > 0
       THEN [self |-> [CryptoStrategy_reset_tracking(self) EXCEPT !.last_signal = ""],
             l |-> [l EXCEPT !.position = 0,
                             !.trades = Append(@, [ time |-> bar.stime, action |-> "SELL",
                                                    price |-> current_price,
                                                    reason |-> "SIGNAL" ])]]
       ELSE [self |-> [self EXCEPT !.last_signal = ""], l |-> l]

\* A bar on which the policy is still consulted after a risk-control exit.
CryptoStrategy_backtest_bar_reenter(self, l, bar, s) ==
    LET chk == IF l.position > 0
               THEN CryptoStrategy_check_stop_conditions(self, Rat(bar.close))
               ELSE [self |-> self, take_profit_triggered |-> FALSE,
                     stop_loss_triggered |-> FALSE]
        x == IF l.position > 0
                /\ CryptoStrategy_backtest_exit_due(l, chk)
             THEN CryptoStrategy_backtest_stop_exit(self, l, chk, bar)
             ELSE [self |-> chk.self, l |-> l]
        r == CryptoStrategy_backtest_record(CryptoStrategy_on_bar(x.self, s), x.l, bar)
    IN [self |-> r.self, l |-> r.l, continued |-> FALSE, consulted |-> TRUE]

CryptoStrategy_backtest_bar(self, l, bar, s) ==
    LET chk == IF l.position > 0
               THEN CryptoStrategy_check_stop_conditions(self, Rat(bar.close))
               ELSE [self |-> self, take_profit_triggered |-> FALSE,
                     stop_loss_triggered |-> FALSE]
    IN IF l.position > 0
          /\ CryptoStrategy_backtest_exit_due(l, chk)
       THEN LET r == CryptoStrategy_backtest_stop_exit(self, l, chk, bar)
            IN [self |-> r.self, l |-> r.l, continued |-> TRUE, consulted |-> FALSE]
       ELSE LET r == CryptoStrategy_backtest_record(CryptoStrategy_on_bar(chk.self, s), l, bar)
            IN [self |-> r.self, l |-> r.l, continued |-> FALSE, consulted |-> TRUE]

\* _calculate_backtest_result: the counts.  A SELL is counted only when a
\* BUY precedes it (position_price > 0).  (The capital it derives applies fee
\* and slippage to every trade and is not part of this model.)
RECURSIVE CryptoStrategy_count_sells(_, _, _)
CryptoStrategy_count_sells(trades, k, holding) ==
    IF k > Len(trades) THEN 0
    ELSE IF trades[k].action = "BUY"
    THEN CryptoStrategy_count_sells(trades, k + 1, TRUE)
    ELSE IF trades[k].action = "SELL" /\ holding
    THEN 1 + CryptoStrategy_count_sells(trades, k + 1, FALSE)
    ELSE CryptoStrategy_count_sells(trades, k + 1, holding)

CryptoStrategy_calculate_backtest_result(l) ==
    IF l.trades = <<>>
    THEN [ trades |-> 0, trade_list |-> <<>>, buy_trades |-> 0, sell_trades |-> 0,
           stop_loss_count |-> l.stop_loss_count,
           take_profit_count |-> l.take_profit_count ]
    ELSE [ trades |-> Len(l.trades), trade_list |-> l.trades,
           buy_trades |-> Count(l.trades, LAMBDA t : t.action = "BUY"),
           sell_trades |-> CryptoStrategy_count_sells(l.trades, 1, FALSE),
           stop_loss_count |-> l.stop_loss_count,
           take_profit_count |-> l.take_profit_count ]

(***************************************************************************)
(* State.                                                                  *)
(*   trader : the PaperTrader instance (fields as in the source)           *)
(*   run    : position of PaperTrader.run, the price and signals fetched   *)
(*            in the current cycle, and the final performance              *)
(*   ret    : the last direct call of buy / sell and what it returned      *)
(*   obs    : history of the last processed cycle or bar (inputs, state    *)
(*            before it), used to state per-bar properties                 *)
(*   bt     : run_backtest: position in the function, row index, locals,   *)
(*            last row read, result                                        *)
(*   strat  : the CryptoStrategy instance                                  *)
(*   cs     : CryptoStrategy.backtest: position, bar index, locals, result *)
(* One entry point runs per behaviour; the others stay "unused".           *)
(***************************************************************************)
\* The arithmetic is exact, so amounts grow with every trade under fees or
\* slippage; with frictions enabled the exploration stops trading once the
\* first round trip is complete.
Frictionless(self) == ~self.enable_fees /\ ~self.enable_slippage
Explorable(self) == Frictionless(self) \/ self.trades = <<>> \/ RGt(self.position, Zero)

FrictionConfigs ==
    { [market_type |-> "spot", enable_fees |-> TRUE, enable_slippage |-> FALSE],
      [market_type |-> "futures", enable_fees |-> TRUE, enable_slippage |-> FALSE],
      [market_type |-> "spot", enable_fees |-> FALSE, enable_slippage |-> TRUE] }

\* trailing_stop_rate is a plain attribute of the trader (a recognised
\* configuration option); 0 is the boundary value at which a take-profit
\* and a trailing stop can hold on the same bar.
TrailingStopRates == { <<3, 100>>, <<0, 1>> }

NoObs == [kind |-> "none"]
NoRet == [op |-> "none"]

\* The configurations explored: every combination of the risk-control
\* toggles and trailing rates without frictions, and each friction with the
\* defaults of the constructor, with the default trading conditions; and
\* every combination of the toggles with the tuned trading conditions.
InitTrader ==
    \/ \E sl \in BOOLEAN, tp \in BOOLEAN, tr \in TrailingStopRates :
         trader = [PaperTrader_init("spot", InitialCapital, FALSE, FALSE, sl, tp)
                   EXCEPT !.trailing_stop_rate = tr]
    \/ \E sl \in BOOLEAN, tp \in BOOLEAN :
         trader = [PaperTrader_init("spot", InitialCapital, FALSE, FALSE, sl, tp)
                   EXCEPT !.params = StrategyTuner_params]
    \/ \E f \in FrictionConfigs :
         trader = PaperTrader_init(f.market_type, InitialCapital, f.enable_fees,
                                   f.enable_slippage, TRUE, TRUE)

\* feed is the set of prices the market can quote during the run.
InitRun(pc) == run = [pc |-> pc, cycle |-> 0, calls |-> 0, price |-> NoPrice,
                      signals |-> None, perf |-> None, feed |-> Prices]

\* capital is params['capital'] of the run.
InitBacktest(pc) ==
    bt = [pc |-> pc, capital |-> InitialCapital, i |-> 0,
          l |-> run_backtest_init(InitialCapital, DEFAULT_STRATEGY_PARAMS),
          last |-> None, result |-> None]

InitWorker(pc) ==
    pw = [pc |-> pc, i |-> 0, l |-> run_paper_trading_init(InitialCapital), last |-> None]

InitStrategy(pc) ==
    /\ strat = CryptoStrategy_init
    /\ cs = [pc |-> pc, i |-> 0, l |-> CryptoStrategy_backtest_init(TRUE, TRUE),
             result |-> None, feed |-> Prices]

DefaultTrader == PaperTrader_init("spot", InitialCapital, FALSE, FALSE, TRUE, TRUE)

\* A client calls trader.buy(price) directly.
CallBuy ==
    /\ run.pc = "idle" /\ run.calls < MaxCalls /\ Explorable(trader)
    /\ \E p \in run.feed :
         LET r == PaperTrader_buy(trader, Rat(p), "CALL", run.calls)
         IN /\ trader' = r.self
            /\ ret' = [op |-> "buy", result |-> r.result, raised |-> "none", before |-> trader]
    /\ run' = [run EXCEPT !.calls = @ + 1]
    /\ UNCHANGED <<obs, bt, strat, cs, pw>>

\* A client calls trader.sell(price) directly.
CallSell ==
    /\ run.pc = "idle" /\ run.calls < MaxCalls /\ Explorable(trader)
    /\ \E p \in run.feed :
         LET r == PaperTrader_sell(trader, Rat(p), "CALL", run.calls)
         IN /\ trader' = r.self
            /\ ret' = [op |-> "sell", result |-> r.result, raised |-> "none", before |-> trader]
    /\ run' = [run EXCEPT !.calls = @ + 1]
    /\ UNCHANGED <<obs, bt, strat, cs, pw>>

\* A client calls trader.get_performance().  ret remembers whether the call
\* before it was a get_performance too, and what that call returned.
CallGetPerformance ==
    /\ run.pc = "idle" /\ run.calls < MaxCalls /\ Explorable(trader)
    /\ LET r == PaperTrader_get_performance_call(trader)
       IN /\ trader' = r.self
          /\ ret' = [op |-> "get_performance", result |-> r.result, raised |-> "none",
                     before |-> trader,
                     repeated |-> ret.op = "get_performance",
                     previous |-> IF ret.op = "get_performance" THEN ret.result ELSE None]
    /\ run' = [run EXCEPT !.calls = @ + 1]
    /\ UNCHANGED <<obs, bt, strat, cs, pw>>

\* main() constructs a trader and calls run on it.
StartRun ==
    /\ run.pc = "idle" /\ run.calls = 0
    /\ run' = [run EXCEPT !.pc = "price"]
    /\ UNCHANGED <<trader, ret, obs, bt, strat, cs, pw>>

\* price = self.monitor.get_current_price(): a price, or None on any failure.
GetPrice ==
    /\ run.pc = "price" /\ run.cycle < MaxCycles /\ Explorable(trader)
    /\ \E p \in run.feed \cup {NoPrice} :
         run' = [run EXCEPT !.pc = "signals", !.cycle = @ + 1, !.price = p, !.signals = None]
    /\ obs' = NoObs
    /\ UNCHANGED <<trader, ret, bt, strat, cs, pw>>

\* signals = self.monitor.calculate_live_signals(interval): a snapshot; None
\* when get_latest_klines caught an exception and returned an empty frame;
\* or an AttributeError when the exchange returned None, since
\* calculate_live_signals reads df.empty of the None that get_latest_klines
\* passes on.  Only KeyboardInterrupt is caught by run.
CalcSignals ==
    /\ run.pc = "signals"
    /\ \/ \E s \in LiveSignals \cup {None} :
            /\ run' = [run EXCEPT !.pc = "process", !.signals = s]
            /\ obs' = obs
       \/ /\ run' = [run EXCEPT !.pc = "crashed"]
          /\ obs' = [kind |-> "raised", before |-> trader, cycle |-> run.cycle]
    /\ UNCHANGED <<trader, ret, bt, strat, cs, pw>>

\* The rest of the loop body up to the wait.
Process ==
    /\ run.pc = "process"
    /\ IF run.signals # None /\ run.price # NoPrice
       THEN LET r == PaperTrader_run_cycle(trader, Rat(run.price), run.signals, run.cycle)
                \* `if self.trades: perf = self.get_performance()` before the
                \* wait; an exception raised there ends run.
                shown == IF r.continued THEN None ELSE PaperTrader_get_performance(r.self)
            IN /\ trader' = r.self
               /\ run' = [run EXCEPT !.pc = IF r.continued THEN "price"
                                            ELSE IF shown = ZeroDivisionError THEN "crashed"
                                            ELSE "sleep"]
               /\ obs' = [kind |-> "cycle", before |-> trader, cycle |-> run.cycle,
                          price |-> Rat(run.price), signals |-> run.signals,
                          continued |-> r.continued, consulted |-> r.consulted]
       ELSE /\ trader' = trader
            /\ run' = [run EXCEPT !.pc = "sleep"]
            /\ obs' = [kind |-> "skipped", before |-> trader, cycle |-> run.cycle]
    /\ UNCHANGED <<ret, bt, strat, cs, pw>>

\* time.sleep(check_interval)
Sleep ==
    /\ run.pc = "sleep"
    /\ run' = [run EXCEPT !.pc = "price"]
    /\ UNCHANGED <<trader, ret, obs, bt, strat, cs, pw>>

\* Ctrl+C while the loop runs.
KeyboardInterrupt ==
    /\ run.pc \in {"price", "signals", "process", "sleep"}
    /\ run' = [run EXCEPT !.pc = "interrupted", !.signals = None]
    /\ obs' = [kind |-> "interrupt", before |-> trader, cycle |-> run.cycle]
    /\ UNCHANGED <<trader, ret, bt, strat, cs, pw>>

\* The record self after the first k of the assignments that lead from
\* self to after, statements naming the assigned attributes in order.
StatementsApplied(self, after, statements, k) ==
    [f \in DOMAIN self |->
        IF \E j \in 1..k : statements[j] = f THEN after[f] ELSE self[f]]

\* The assignments the loop body makes on a price and a snapshot once
\* _check_stop_conditions has returned: the counter and the sell of a
\* risk-control exit, or the buy or sell of the signal.
PaperTrader_run_statements(checked, r) ==
    IF r.continued
    THEN IF r.self.take_profit_count > checked.take_profit_count
         THEN <<"take_profit_count">> \o PaperTrader_sell_statements
         ELSE <<"stop_loss_count">> \o PaperTrader_sell_statements
    ELSE IF Len(r.self.trades) = Len(checked.trades) THEN <<>>
    ELSE IF r.self.trades[Len(r.self.trades)].action = "BUY"
    THEN PaperTrader_buy_statements
    ELSE PaperTrader_sell_statements

\* Ctrl+C while the loop body executes a buy or a sell: Python raises
\* KeyboardInterrupt in the main thread between two bytecodes, and run
\* neither masks nor defers it, so the `except` block is entered with the
\* assignments made so far.
KeyboardInterruptInTransaction ==
    /\ run.pc = "process" /\ run.signals # None /\ run.price # NoPrice
    /\ LET checked == PaperTrader_check_stop_conditions(trader, Rat(run.price)).self
           r == PaperTrader_run_cycle(trader, Rat(run.price), run.signals, run.cycle)
           statements == PaperTrader_run_statements(checked, r)
       IN \E k \in 1..(Len(statements) - 1) :
            /\ trader' = StatementsApplied(checked, r.self, statements, k)
            /\ obs' = [kind |-> "interrupt_in_transaction", before |-> trader,
                       after |-> r.self, statements |-> statements, k |-> k,
                       cycle |-> run.cycle]
    /\ run' = [run EXCEPT !.pc = "interrupted", !.signals = None]
    /\ UNCHANGED <<ret, bt, strat, cs, pw>>

\* The `except KeyboardInterrupt` block: close the position if a fresh price
\* can be fetched, then compute the performance.  (save_log and the final
\* report follow; they do not touch the trader.)
PaperTrader_run_finalize(self, price, now) ==
    IF RGt(self.position, Zero) /\ price # NoPrice
    THEN PaperTrader_sell(self, Rat(price), "MANUAL_STOP", now)
    ELSE [self |-> self, result |-> FALSE, raised |-> "none"]

Finalize ==
    /\ run.pc = "interrupted"
    /\ \E p \in run.feed \cup {NoPrice} :
         LET closed == PaperTrader_run_finalize(trader, p, run.cycle + 1)
             self1 == closed.self
             perf == IF closed.raised = "none" THEN PaperTrader_get_performance(self1)
                     ELSE None
         IN /\ trader' = self1
            \* an exception raised inside the handler leaves run
            /\ run' = IF closed.raised # "none" \/ perf = ZeroDivisionError
                      THEN [run EXCEPT !.pc = "crashed"]
                      ELSE [run EXCEPT !.pc = "done", !.perf = perf]
    /\ UNCHANGED <<ret, obs, bt, strat, cs, pw>>

NextTrader ==
    \/ CallBuy \/ CallSell \/ StartRun \/ GetPrice \/ CalcSignals
    \/ Process \/ Sleep \/ KeyboardInterrupt \/ Finalize

(***************************************************************************)
(* Actions of run_backtest.                                                *)
(***************************************************************************)
Row(stime, close, s) ==
    [stime |-> stime, close |-> close, HA |-> s.HA, QS |-> s.QS, QJ |-> s.QJ, WD3 |-> s.WD3]

\* The strategy parameters, the data and the signals are loaded; the loop
\* starts at start_index.
StartBacktest ==
    /\ bt.pc = "idle"
    /\ \E strategy_params \in load_strategy_params :
         bt' = [bt EXCEPT !.pc = "loop",
                          !.l = run_backtest_init(bt.capital, strategy_params)]
    /\ UNCHANGED <<trader, run, ret, obs, strat, cs, pw>>

\* One iteration of `for i in range(start_index, len(signals))`.
BacktestBar ==
    /\ bt.pc = "loop" /\ bt.i < MaxBars
    /\ \E c \in Prices, s \in Signals :
         LET row == Row(bt.i + 1, c, s)
         IN /\ bt' = [bt EXCEPT !.i = @ + 1, !.l = run_backtest_bar(@, row), !.last = row]
            /\ obs' = [kind |-> "bt_bar", before |-> bt.l, row |-> row]
    /\ UNCHANGED <<trader, run, ret, strat, cs, pw>>

\* The rows are exhausted: forced close and result.
BacktestEnd ==
    /\ bt.pc = "loop"
    /\ LET l1 == run_backtest_close(bt.l, bt.last)
           result == run_backtest_result(l1)
       IN \* `except Exception`: the run returns success False and no result
          bt' = IF result = ZeroDivisionError
                THEN [bt EXCEPT !.pc = "failed", !.l = l1]
                ELSE [bt EXCEPT !.pc = "done", !.l = l1, !.result = result]
    /\ obs' = [kind |-> "bt_end", before |-> bt.l, last |-> bt.last]
    /\ UNCHANGED <<trader, run, ret, strat, cs, pw>>

NextBacktest == StartBacktest \/ BacktestBar \/ BacktestEnd

(***************************************************************************)
(* Actions of CryptoStrategy.backtest.                                     *)
(***************************************************************************)
\* strategy.backtest(start_date, end_date, interval, initial_capital,
\* enable_stop_loss, enable_take_profit) on a strategy whose
\* trailing_stop_rate attribute is tr: state reset before the loop.
StartStrategyBacktest ==
    /\ cs.pc = "idle"
    /\ \E sl \in BOOLEAN, tp \in BOOLEAN, tr \in TrailingStopRates :
         /\ strat' = CryptoStrategy_reset_tracking([strat EXCEPT !.trailing_stop_rate = tr])
         /\ cs' = [cs EXCEPT !.pc = "loop", !.i = 0,
                             !.l = CryptoStrategy_backtest_init(sl, tp), !.result = None]
    /\ UNCHANGED <<trader, run, ret, obs, bt, pw>>

\* One iteration of `for i in range(len(data))`.
StrategyBar ==
    /\ cs.pc = "loop" /\ cs.i < MaxBars
    /\ \E c \in cs.feed, s \in Signals \cup {None} :
         LET bar == [stime |-> cs.i + 1, close |-> c]
             r == CryptoStrategy_backtest_bar(strat, cs.l, bar, s)
         IN /\ strat' = r.self
            /\ cs' = [cs EXCEPT !.i = @ + 1, !.l = r.l]
            /\ obs' = [kind |-> "cs_bar", before |-> cs.l, before_self |-> strat,
                       bar |-> bar, signals |-> s,
                       continued |-> r.continued, consulted |-> r.consulted]
    /\ UNCHANGED <<trader, run, ret, bt, pw>>

\* The bars are exhausted: the result is computed from the trade list.
StrategyEnd ==
    /\ cs.pc = "loop"
    /\ cs' = [cs EXCEPT !.pc = "done",
                        !.result = CryptoStrategy_calculate_backtest_result(cs.l)]
    /\ obs' = [kind |-> "cs_end", before |-> cs.l, before_self |-> strat]
    /\ UNCHANGED <<trader, run, ret, strat, bt, pw>>

NextStrategy == StartStrategyBacktest \/ StrategyBar \/ StrategyEnd

(***************************************************************************)
(* A client that calls buy, sell and get_performance on a trader.          *)
(***************************************************************************)
InitPerformance ==
    /\ ret = NoRet /\ obs = NoObs /\ InitWorker("unused")
    /\ InitTrader /\ InitRun("idle") /\ InitBacktest("unused") /\ InitStrategy("unused")

NextPerformance == CallBuy \/ CallSell \/ CallGetPerformance

SpecPerformance == InitPerformance /\ [][NextPerformance]_vars

(***************************************************************************)
(* Actions of run_paper_trading.                                           *)
(***************************************************************************)
\* The data and the signals are loaded; the loop starts at start_idx.
StartWorker ==
    /\ pw.pc = "idle"
    /\ pw' = [pw EXCEPT !.pc = "loop"]
    /\ UNCHANGED <<trader, run, ret, obs, bt, strat, cs>>

\* One iteration of the loop, the wait at its end included.  The row is the
\* one calculate_signals computed for the bar.
WorkerBar ==
    /\ pw.pc = "loop" /\ pw.i < MaxBars
    /\ \E c \in Prices, s \in Signals :
         LET current_bar == [stime |-> pw.i + 1, close |-> c]
             current_signal == [period |-> "1h", stime |-> pw.i + 1, HA |-> s.HA,
                                QS |-> s.QS, QJ |-> s.QJ, WD3 |-> s.WD3]
         IN /\ pw' = [pw EXCEPT !.i = @ + 1, !.last = current_bar,
                                !.l = run_paper_trading_bar(@, start_idx + pw.i,
                                                            current_bar, current_signal)]
            /\ obs' = [kind |-> "pw_bar", before |-> pw.l, bar |-> current_bar,
                       signals |-> current_signal]
    /\ UNCHANGED <<trader, run, ret, bt, strat, cs>>

\* The bars are exhausted: forced close and complete event.
WorkerEnd ==
    /\ pw.pc = "loop"
    /\ pw' = [pw EXCEPT !.pc = "done", !.l = run_paper_trading_end(pw.l, pw.last)]
    /\ obs' = [kind |-> "pw_end", before |-> pw.l, last |-> pw.last]
    /\ UNCHANGED <<trader, run, ret, bt, strat, cs>>

NextWorker == StartWorker \/ WorkerBar \/ WorkerEnd

(***************************************************************************)
(* The program is started through one of its entry points.                 *)
(***************************************************************************)
Init ==
    /\ ret = NoRet /\ obs = NoObs
    /\ \/ InitTrader /\ InitRun("idle") /\ InitBacktest("unused") /\ InitStrategy("unused")
          /\ InitWorker("unused")
       \/ trader = DefaultTrader /\ InitRun("unused") /\ InitBacktest("idle")
          /\ InitStrategy("unused") /\ InitWorker("unused")
       \/ trader = DefaultTrader /\ InitRun("unused") /\ InitBacktest("unused")
          /\ InitStrategy("idle") /\ InitWorker("unused")
       \/ trader = DefaultTrader /\ InitRun("unused") /\ InitBacktest("unused")
          /\ InitStrategy("unused") /\ InitWorker("idle")

Next == NextTrader \/ NextBacktest \/ NextStrategy \/ NextWorker

Spec == Init /\ [][Next]_vars

(***************************************************************************)
(* The worked scenarios: the streaming run and the strategy backtest on a  *)
(* market quoting ScenarioPrices, without slippage; the trader starts with *)
(* 10,000 and no fees, or with 1,000 and spot fees.                        *)
(***************************************************************************)
InitScenario ==
    /\ ret = NoRet /\ obs = NoObs /\ InitWorker("unused")
    /\ \/ /\ \E sl \in BOOLEAN, tp \in BOOLEAN :
               \/ trader = PaperTrader_init("spot", InitialCapital, FALSE, FALSE, sl, tp)
               \/ trader = PaperTrader_init("spot", 1000, TRUE, FALSE, sl, tp)
          /\ run = [pc |-> "idle", cycle |-> 0, calls |-> 0, price |-> NoPrice,
                    signals |-> None, perf |-> None, feed |-> ScenarioPrices]
          /\ InitStrategy("unused")
       \/ /\ trader = DefaultTrader /\ InitRun("unused")
          /\ strat = CryptoStrategy_init
          /\ cs = [pc |-> "idle", i |-> 0, l |-> CryptoStrategy_backtest_init(TRUE, TRUE),
                   result |-> None, feed |-> ScenarioPrices]
    /\ InitBacktest("unused")

NextScenario == NextTrader \/ NextStrategy

SpecScenario == InitScenario /\ [][NextScenario]_vars

(***************************************************************************)
(* CryptoStrategy.backtest called twice in succession on one strategy      *)
(* instance, with the same arguments and the same data: the second call    *)
(* loads the bars, and reads the signals, that the first one did.          *)
(* cs.inputs is the data of the first call, cs.first what it returned.     *)
(***************************************************************************)
InitRerun ==
    /\ ret = NoRet /\ obs = NoObs /\ InitWorker("unused")
    /\ trader = DefaultTrader /\ InitRun("unused") /\ InitBacktest("unused")
    /\ \E sl \in BOOLEAN, tp \in BOOLEAN :
         /\ strat = CryptoStrategy_reset_tracking(CryptoStrategy_init)
         /\ cs = [pc |-> "loop", i |-> 0, l |-> CryptoStrategy_backtest_init(sl, tp),
                  result |-> None, feed |-> Prices, inputs |-> <<>>, first |-> None]

\* One iteration of the loop of the first call.
RerunFirstBar ==
    /\ cs.pc = "loop" /\ cs.i < MaxBars
    /\ \E c \in cs.feed, s \in Signals \cup {None} :
         LET bar == [stime |-> cs.i + 1, close |-> c]
             r == CryptoStrategy_backtest_bar(strat, cs.l, bar, s)
         IN /\ strat' = r.self
            /\ cs' = [cs EXCEPT !.i = @ + 1, !.l = r.l,
                                !.inputs = Append(@, [bar |-> bar, signals |-> s])]
            /\ obs' = [kind |-> "cs_bar", before |-> cs.l, before_self |-> strat,
                       bar |-> bar, signals |-> s,
                       continued |-> r.continued, consulted |-> r.consulted]
    /\ UNCHANGED <<trader, run, ret, bt, pw>>

\* The first call returns its result and backtest is called again: the
\* locals are initialised and the tracking attributes are reset.
RerunStartSecond ==
    /\ cs.pc = "loop"
    /\ strat' = CryptoStrategy_reset_tracking(strat)
    /\ cs' = [cs EXCEPT !.pc = "loop2", !.i = 0,
                        !.l = CryptoStrategy_backtest_init(cs.l.enable_stop_loss,
                                                           cs.l.enable_take_profit),
                        !.result = None,
                        !.first = [trades |-> cs.l.trades,
                                   result |-> CryptoStrategy_calculate_backtest_result(cs.l)]]
    /\ obs' = [kind |-> "cs_end", before |-> cs.l, before_self |-> strat]
    /\ UNCHANGED <<trader, run, ret, bt, pw>>

\* One iteration of the loop of the second call, on the same bar and signals.
RerunSecondBar ==
    /\ cs.pc = "loop2" /\ cs.i < Len(cs.inputs)
    /\ LET bar == cs.inputs[cs.i + 1].bar
           s == cs.inputs[cs.i + 1].signals
           r == CryptoStrategy_backtest_bar(strat, cs.l, bar, s)
       IN /\ strat' = r.self
          /\ cs' = [cs EXCEPT !.i = @ + 1, !.l = r.l]
          /\ obs' = [kind |-> "cs_bar", before |-> cs.l, before_self |-> strat,
                     bar |-> bar, signals |-> s,
                     continued |-> r.continued, consulted |-> r.consulted]
    /\ UNCHANGED <<trader, run, ret, bt, pw>>

\* The second call returns its result.
RerunEndSecond ==
    /\ cs.pc = "loop2" /\ cs.i = Len(cs.inputs)
    /\ cs' = [cs EXCEPT !.pc = "done2",
                        !.result = CryptoStrategy_calculate_backtest_result(cs.l)]
    /\ obs' = [kind |-> "cs_end", before |-> cs.l, before_self |-> strat]
    /\ UNCHANGED <<trader, run, ret, strat, bt, pw>>

NextRerun == RerunFirstBar \/ RerunStartSecond \/ RerunSecondBar \/ RerunEndSecond

SpecRerun == InitRerun /\ [][NextRerun]_vars

(***************************************************************************)
(* PaperTrader.run with Ctrl+C delivered at any point of the loop, the     *)
(* statements of a buy or a sell included.                                 *)
(***************************************************************************)
InitInterrupt ==
    /\ ret = NoRet /\ obs = NoObs /\ InitWorker("unused")
    /\ \E f \in {[market_type |-> "spot", enable_fees |-> FALSE],
                  [market_type |-> "spot", enable_fees |-> TRUE]} :
         trader = PaperTrader_init(f.market_type, InitialCapital, f.enable_fees, FALSE,
                                   TRUE, TRUE)
    /\ InitRun("idle") /\ InitBacktest("unused") /\ InitStrategy("unused")

NextInterrupt == NextTrader \/ KeyboardInterruptInTransaction

SpecInterrupt == InitInterrupt /\ [][NextInterrupt]_vars

(***************************************************************************)
(* The entry points started with any capital the caller passes: main()     *)
(* hands --capital to PaperTrader, run_backtest reads params['capital'].   *)
(***************************************************************************)
InitCapital ==
    /\ ret = NoRet /\ obs = NoObs /\ InitWorker("unused")
    /\ \E capital \in Capitals :
         \/ /\ trader = PaperTrader_init("spot", capital, FALSE, FALSE, TRUE, TRUE)
            /\ InitRun("idle")
            /\ InitBacktest("unused")
         \/ /\ trader = DefaultTrader /\ InitRun("unused")
            /\ bt = [pc |-> "idle", capital |-> capital, i |-> 0,
                     l |-> run_backtest_init(capital, DEFAULT_STRATEGY_PARAMS),
                     last |-> None, result |-> None]
    /\ InitStrategy("unused")

NextCapital == NextTrader \/ NextBacktest

SpecCapital == InitCapital /\ [][NextCapital]_vars

(***************************************************************************)
(* The two drivers side by side on one stream: every row of the batch run  *)
(* is also one poll of the streaming run (price = close, signals = the     *)
(* row's signals), with fees and slippage disabled.  At the end of the     *)
(* data the batch run closes and the streaming run is cancelled with the   *)
(* last close as its final price.                                          *)
(***************************************************************************)
InitLockstep ==
    /\ ret = NoRet /\ obs = NoObs /\ InitWorker("unused")
    /\ \E sl \in BOOLEAN, tp \in BOOLEAN, strategy_params \in load_strategy_params :
         /\ trader = [PaperTrader_init("spot", InitialCapital, FALSE, FALSE, sl, tp)
                      EXCEPT !.params = strategy_params]
         /\ bt = [pc |-> "loop", capital |-> InitialCapital, i |-> 0, last |-> None, result |-> None,
                  l |-> run_backtest_init(InitialCapital, strategy_params)]
    /\ InitRun("price") /\ InitStrategy("unused")

LockstepBar ==
    /\ run.pc = "price" /\ bt.pc = "loop" /\ bt.i < MaxBars
    /\ \E c \in Prices, s \in Signals :
         LET row == Row(bt.i + 1, c, s)
         IN /\ bt' = [bt EXCEPT !.i = @ + 1, !.l = run_backtest_bar(@, row), !.last = row]
            /\ trader' = PaperTrader_run_cycle(trader, Rat(c), s, bt.i + 1).self
            /\ run' = [run EXCEPT !.cycle = @ + 1, !.price = c]
            /\ obs' = [kind |-> "lockstep", before |-> trader, before_bt |-> bt.l, row |-> row]
    /\ UNCHANGED <<ret, strat, cs, pw>>

LockstepEnd ==
    /\ run.pc = "price" /\ bt.pc = "loop" /\ bt.i > 0
    /\ LET l1 == run_backtest_close(bt.l, bt.last)
           self1 == PaperTrader_run_finalize(trader, bt.last.close, bt.last.stime).self
       IN /\ bt' = [bt EXCEPT !.pc = "done", !.l = l1, !.result = run_backtest_result(l1)]
          /\ trader' = self1
          /\ run' = [run EXCEPT !.pc = "done", !.perf = PaperTrader_get_performance(self1)]
    /\ obs' = [kind |-> "lockstep_end", before |-> trader, before_bt |-> bt.l, row |-> bt.last]
    /\ UNCHANGED <<ret, strat, cs, pw>>

NextLockstep == LockstepBar \/ LockstepEnd

SpecLockstep == InitLockstep /\ [][NextLockstep]_vars

(***************************************************************************)
(* Conditions of the specification, stated on the values of a bar.         *)
(***************************************************************************)
Flat(self) == self.position = Zero
Open(self) == RGt(self.position, Zero)
LastTrade(trades) == trades[Len(trades)]

ProfitRate(entry, price) == RDiv(RSub(price, entry), entry)
Peak(highest, price) == IF RGt(price, highest) THEN price ELSE highest
TakeProfitHolds(entry, price, rate) == RGeq(ProfitRate(entry, price), rate)
FixedStopHolds(entry, price, rate) == RLeq(ProfitRate(entry, price), RNeg(rate))
TrailingStopHolds(entry, highest, price, rate) ==
    LET h == Peak(highest, price)
    IN RGt(h, entry) /\ RGeq(RDiv(RSub(h, price), h), rate)

BuyGroup(params, s) == s.HA > params.HA_threshold /\ s.WD3 < params.WD3_max
SellGroup(params, s) ==
    Abs(s.QJ) > params.QJ_threshold \/ s.WD3 > params.WD3_threshold
StrategySellGroup(s) == Abs(s.QJ) > 70000 \/ s.WD3 > 233

\* A processed cycle of PaperTrader.run / bar of CryptoStrategy.backtest that
\* began with a position open.
TraderOpenCycle == obs.kind = "cycle" /\ Open(obs.before)
StrategyOpenBar == obs.kind = "cs_bar" /\ obs.before.position > 0

TraderTakeProfit ==
    /\ TraderOpenCycle /\ obs.before.enable_take_profit
    /\ TakeProfitHolds(obs.before.entry_price, obs.price, obs.before.take_profit_rate)
TraderStopLoss ==
    /\ TraderOpenCycle /\ obs.before.enable_stop_loss
    /\ \/ FixedStopHolds(obs.before.entry_price, obs.price, obs.before.stop_loss_rate)
       \/ TrailingStopHolds(obs.before.entry_price, obs.before.highest_price, obs.price,
                            obs.before.trailing_stop_rate)
StrategyTakeProfit ==
    /\ StrategyOpenBar /\ obs.before.enable_take_profit
    /\ TakeProfitHolds(obs.before_self.entry_price, Rat(obs.bar.close),
                       obs.before_self.take_profit_rate)
StrategyStopLoss ==
    /\ StrategyOpenBar /\ obs.before.enable_stop_loss
    /\ \/ FixedStopHolds(obs.before_self.entry_price, Rat(obs.bar.close),
                         obs.before_self.stop_loss_rate)
       \/ TrailingStopHolds(obs.before_self.entry_price, obs.before_self.highest_price,
                            Rat(obs.bar.close), obs.before_self.trailing_stop_rate)

\* exactly one record was appended by the last cycle / bar, a SELL
TraderOneSell ==
    /\ Len(trader.trades) = Len(obs.before.trades) + 1
    /\ LastTrade(trader.trades).action = "SELL"
StrategyOneSell ==
    /\ Len(cs.l.trades) = Len(obs.before.trades) + 1
    /\ LastTrade(cs.l.trades).action = "SELL"

C2_TakeProfitBeforeSignal ==
    /\ TraderTakeProfit /\ SellGroup(obs.before.params, obs.signals) =>
          TraderOneSell /\ LastTrade(trader.trades).reason = "TAKE_PROFIT"
    /\ StrategyTakeProfit /\ obs.signals # None /\ StrategySellGroup(obs.signals) =>
          StrategyOneSell /\ LastTrade(cs.l.trades).reason = "TAKE_PROFIT"

C2_Witness ==
    /\ TraderTakeProfit /\ SellGroup(obs.before.params, obs.signals)
    /\ LastTrade(trader.trades).reason = "TAKE_PROFIT"

(***************************************************************************)
(* C3: on the same stream and configuration the batch driver and the       *)
(* streaming driver produce the same sequence of BUY / SELL actions on the *)
(* same bars, and the same capital whenever both are flat.                 *)
(***************************************************************************)
Side(action) == IF action = "BUY" THEN "BUY" ELSE "SELL"

C3_SameTrades ==
    /\ Len(trader.trades) = Len(bt.l.trades)
    /\ \A k \in 1..Len(trader.trades) :
         /\ Side(trader.trades[k].action) = Side(bt.l.trades[k].action)
         /\ trader.trades[k].time = bt.l.trades[k].time
         /\ trader.trades[k].price = bt.l.trades[k].price
    /\ Flat(trader) => trader.capital = bt.l.current_capital

(***************************************************************************)
(* C4: a batch run whose data ends with a position open appends exactly    *)
(* one more SELL, at the close of the last bar and tagged as the end of    *)
(* the data; in run_backtest and in CryptoStrategy.backtest.               *)
(***************************************************************************)
C4_EndOfDataClose ==
    /\ obs.kind = "bt_end" /\ RGt(obs.before.position, Zero) =>
          /\ Len(bt.l.trades) = Len(obs.before.trades) + 1
          /\ LastTrade(bt.l.trades).action = "SELL (END)"
          /\ LastTrade(bt.l.trades).price = Rat(obs.last.close)
    /\ obs.kind = "cs_end" /\ obs.before.position > 0 =>
          /\ Len(cs.l.trades) = Len(obs.before.trades) + 1
          /\ LastTrade(cs.l.trades).action = "SELL"

(***************************************************************************)
(* C5: a cancelled streaming run always ends flat; when the position was   *)
(* open at the cancellation, exactly one SELL with the manual-stop reason  *)
(* is appended, whatever the price fetch of the finalization returns.      *)
(***************************************************************************)
C5_CancelFinalizesFlat ==
    run.pc = "done" /\ obs.kind = "interrupt" =>
       /\ Flat(trader)
       /\ Open(obs.before) =>
             /\ TraderOneSell
             /\ LastTrade(trader.trades).reason = "MANUAL_STOP"

(***************************************************************************)
(* C6: when the price fetch or the signal fetch of a cycle fails, by       *)
(* returning nothing or by raising, the cycle is skipped: the trader is    *)
(* unchanged and the run goes on.                                          *)
(***************************************************************************)
C6_FailedFetchSkipped ==
    obs.kind \in {"skipped", "raised"} =>
       trader = obs.before /\ run.pc # "crashed"

(***************************************************************************)
(* C7: on a cycle processed with a position open on which no risk-control  *)
(* exit fires and the sell group of the policy holds, the position is      *)
(* closed by one SELL with the signal reason, whatever the buy group says. *)
(***************************************************************************)
C7_SellGroupCloses ==
    /\ TraderOpenCycle /\ ~TraderTakeProfit /\ ~TraderStopLoss
    /\ SellGroup(obs.before.params, obs.signals)
    => /\ Flat(trader) /\ TraderOneSell
       /\ LastTrade(trader.trades).reason = "SIGNAL"

(***************************************************************************)
(* C8: on a bar on which the take-profit and the stop-loss both trigger    *)
(* the take-profit is applied: one SELL with the take-profit reason, the   *)
(* take-profit count is incremented by one and the stop-loss count is      *)
(* unchanged; in PaperTrader.run and in CryptoStrategy.backtest.           *)
(***************************************************************************)
C8_TakeProfitBeforeStopLoss ==
    /\ TraderTakeProfit /\ TraderStopLoss =>
          /\ TraderOneSell
          /\ LastTrade(trader.trades).reason = "TAKE_PROFIT"
          /\ trader.take_profit_count = obs.before.take_profit_count + 1
          /\ trader.stop_loss_count = obs.before.stop_loss_count
    /\ StrategyTakeProfit /\ StrategyStopLoss =>
          /\ StrategyOneSell
          /\ LastTrade(cs.l.trades).reason = "TAKE_PROFIT"
          /\ cs.l.take_profit_count = obs.before.take_profit_count + 1
          /\ cs.l.stop_loss_count = obs.before.stop_loss_count

C8_Witness ==
    /\ TraderTakeProfit /\ TraderStopLoss
    /\ trader.take_profit_count = obs.before.take_profit_count + 1

(***************************************************************************)
(* C9: a risk-control exit consumes its bar: the policy is not consulted,  *)
(* exactly one record (the SELL) is appended, so no BUY on that bar, and   *)
(* the driver goes to the next fetch flat.                                 *)
(***************************************************************************)
C9_RiskExitConsumesBar ==
    /\ TraderTakeProfit \/ TraderStopLoss =>
          /\ TraderOneSell /\ ~obs.consulted
          /\ Flat(trader) /\ run.pc = "price"
    /\ StrategyTakeProfit \/ StrategyStopLoss =>
          /\ StrategyOneSell /\ ~obs.consulted
          /\ cs.l.position = 0

C9_Witness ==
    /\ StrategyStopLoss /\ ~StrategyTakeProfit
    /\ obs.signals # None /\ obs.signals.HA > 33000
    /\ cs.l.position = 0

(***************************************************************************)
(* C10: when the fixed and the trailing stop conditions both hold on a bar *)
(* and the take-profit does not fire, the SELL carries the fixed stop-loss *)
(* reason; in PaperTrader.run and in CryptoStrategy.backtest.              *)
(***************************************************************************)
C10_FixedStopTag ==
    /\ /\ TraderOpenCycle /\ obs.before.enable_stop_loss /\ ~TraderTakeProfit
       /\ FixedStopHolds(obs.before.entry_price, obs.price, obs.before.stop_loss_rate)
       /\ TrailingStopHolds(obs.before.entry_price, obs.before.highest_price, obs.price,
                            obs.before.trailing_stop_rate)
       => TraderOneSell /\ LastTrade(trader.trades).reason = "STOP_LOSS_FIXED"
    /\ /\ StrategyOpenBar /\ obs.before.enable_stop_loss /\ ~StrategyTakeProfit
       /\ FixedStopHolds(obs.before_self.entry_price, Rat(obs.bar.close),
                         obs.before_self.stop_loss_rate)
       /\ TrailingStopHolds(obs.before_self.entry_price, obs.before_self.highest_price,
                            Rat(obs.bar.close), obs.before_self.trailing_stop_rate)
       => StrategyOneSell /\ LastTrade(cs.l.trades).reason = "STOP_LOSS_FIXED"

(***************************************************************************)
(* C11: in each driver the take-profit count is the number of SELL records *)
(* of its ledger tagged take-profit and the stop-loss count the number of  *)
(* SELL records tagged stop-loss (fixed or trailing in PaperTrader, the    *)
(* one stop-loss tag in CryptoStrategy.backtest); a risk-control exit      *)
(* increments exactly one of the two counters by one and appends one SELL; *)
(* and no step decreases a counter.                                        *)
(***************************************************************************)
CountSells(trades, reasons) ==
    Cardinality({ k \in 1..Len(trades) :
                    trades[k].action = "SELL" /\ trades[k].reason \in reasons })

C11_Ledger ==
    /\ trader.take_profit_count = CountSells(trader.trades, {"TAKE_PROFIT"})
    /\ trader.stop_loss_count =
          CountSells(trader.trades, {"STOP_LOSS_FIXED", "STOP_LOSS_TRAILING"})
    /\ cs.l.take_profit_count = CountSells(cs.l.trades, {"TAKE_PROFIT"})
    /\ cs.l.stop_loss_count = CountSells(cs.l.trades, {"STOP_LOSS"})

C11_Exit ==
    /\ TraderTakeProfit \/ TraderStopLoss =>
          /\ TraderOneSell
          /\ (trader.take_profit_count - obs.before.take_profit_count)
             + (trader.stop_loss_count - obs.before.stop_loss_count) = 1
          /\ trader.take_profit_count >= obs.before.take_profit_count
          /\ trader.stop_loss_count >= obs.before.stop_loss_count
    /\ StrategyTakeProfit \/ StrategyStopLoss =>
          /\ StrategyOneSell
          /\ (cs.l.take_profit_count - obs.before.take_profit_count)
             + (cs.l.stop_loss_count - obs.before.stop_loss_count) = 1
          /\ cs.l.take_profit_count >= obs.before.take_profit_count
          /\ cs.l.stop_loss_count >= obs.before.stop_loss_count

C11_Monotone ==
    /\ trader'.take_profit_count >= trader.take_profit_count
    /\ trader'.stop_loss_count >= trader.stop_loss_count
    /\ cs'.l.take_profit_count >= cs.l.take_profit_count
    /\ cs'.l.stop_loss_count >= cs.l.stop_loss_count

\* C11: the counters match the ledger in every state, every risk-control exit
\* counts once, and no step decreases a counter.
C11_CountersMatchLedger == [](C11_Ledger /\ C11_Exit) /\ [][C11_Monotone]_vars

C11_Witness ==
    /\ StrategyStopLoss /\ ~StrategyTakeProfit
    /\ cs.l.stop_loss_count = 1
    /\ CountSells(cs.l.trades, {"STOP_LOSS"}) = 1

(***************************************************************************)
(* C12: with 10,000 of capital, no fees, no slippage and a take-profit     *)
(* rate of 10%, the take-profit exit of a position entered at 100 on a     *)
(* price sequence that reaches 115 is made at 110 exactly: the SELL has a  *)
(* pnl of 10 percent and the capital becomes 11,000.                       *)
(***************************************************************************)
C12_TakeProfitAt110 ==
    /\ TraderTakeProfit /\ Frictionless(obs.before)
    /\ obs.before.initial_capital = Rat(10000) /\ Len(obs.before.trades) = 1
    /\ obs.before.take_profit_rate = <<1, 10>>
    /\ obs.before.entry_price = Rat(100) /\ RLeq(obs.price, Rat(115))
    => /\ TraderOneSell
       /\ LastTrade(trader.trades).actual_price = Rat(110)
       /\ LastTrade(trader.trades).pnl = Rat(10)
       /\ trader.capital = Rat(11000)

(***************************************************************************)
(* C13: a position entered at 100 whose highest price became 150 is closed *)
(* on the bar at 145 by the trailing stop (rate 3%, stop-loss enabled):    *)
(* PaperTrader.run appends one SELL with the trailing stop-loss reason,    *)
(* CryptoStrategy.backtest closes the position by its stop-loss exit.  In  *)
(* general no position stays open over a bar on which the drawdown from    *)
(* the highest price reaches the trailing rate, so the exit is made on the *)
(* first such bar.                                                         *)
(***************************************************************************)
C13_TrailingStop ==
    /\ /\ TraderOpenCycle /\ obs.before.enable_stop_loss
       /\ TrailingStopHolds(obs.before.entry_price, obs.before.highest_price, obs.price,
                            obs.before.trailing_stop_rate)
       => TraderOneSell /\ Flat(trader)
    /\ /\ TraderOpenCycle /\ obs.before.enable_stop_loss
       /\ obs.before.trailing_stop_rate = <<3, 100>>
       /\ obs.before.entry_price = Rat(100) /\ obs.before.highest_price = Rat(150)
       /\ obs.price = Rat(145)
       => LastTrade(trader.trades).reason = "STOP_LOSS_TRAILING"
    /\ /\ StrategyOpenBar /\ obs.before.enable_stop_loss
       /\ TrailingStopHolds(obs.before_self.entry_price, obs.before_self.highest_price,
                            Rat(obs.bar.close), obs.before_self.trailing_stop_rate)
       => StrategyOneSell /\ cs.l.position = 0
    /\ /\ StrategyOpenBar /\ obs.before.enable_stop_loss
       /\ obs.before_self.trailing_stop_rate = <<3, 100>>
       /\ obs.before_self.entry_price = Rat(100)
       /\ obs.before_self.highest_price = Rat(150)
       /\ obs.bar.close = 145
       => /\ LastTrade(cs.l.trades).reason = "STOP_LOSS"
          /\ cs.l.stop_loss_count = obs.before.stop_loss_count + 1

C13_Witness ==
    /\ TraderOpenCycle /\ obs.before.enable_stop_loss
    /\ obs.before.entry_price = Rat(100) /\ obs.before.highest_price = Rat(150)
    /\ obs.price = Rat(145)
    /\ LastTrade(trader.trades).reason = "STOP_LOSS_TRAILING"
    /\ LastTrade(trader.trades).actual_price = Rat(145)

(***************************************************************************)
(* C14: with the spot fee rate 0.001 and fees enabled, a buy made with a   *)
(* capital of 1,000 charges a fee of exactly 1 and opens the quantity      *)
(* 999 / entry price; total_fees grows by exactly 1 at that buy, by        *)
(* exactly quantity * executed sell price * 0.001 at the matching sell,    *)
(* and no step without a trade changes it.                                 *)
(***************************************************************************)
\* b is the trader before the last buy / sell call or polling cycle.
C14_Step(b) ==
    /\ b.enable_fees /\ b.market_type = "spot" /\ b.fee_rate_spot = <<1, 1000>> =>
          /\ Flat(b) /\ Open(trader) /\ b.capital = Rat(1000) =>
                /\ Len(trader.trades) = Len(b.trades) + 1
                /\ LastTrade(trader.trades).fee = One
                /\ trader.position = RDiv(Rat(999), trader.entry_price)
                /\ trader.total_fees = RAdd(b.total_fees, One)
          /\ Open(b) /\ Flat(trader) =>
                /\ Len(trader.trades) = Len(b.trades) + 1
                /\ trader.total_fees =
                      RAdd(b.total_fees,
                           RMul(RMul(b.position, LastTrade(trader.trades).actual_price),
                                <<1, 1000>>))
          /\ Open(b) = Open(trader) => trader.total_fees = b.total_fees

C14_State ==
    /\ obs.kind = "cycle" => C14_Step(obs.before)
    /\ ret.op \in {"buy", "sell"} => C14_Step(ret.before)

C14_Between ==
    trader'.total_fees # trader.total_fees =>
       /\ Len(trader'.trades) = Len(trader.trades) + 1
       /\ trader'.total_fees = RAdd(trader.total_fees, LastTrade(trader'.trades).fee)

\* C14: the fee of the buy, of the matching sell, and nothing in between.
C14_FeesCompound == []C14_State /\ [][C14_Between]_vars

C14_Witness ==
    /\ obs.kind = "cycle" /\ obs.before.enable_fees /\ Open(obs.before) /\ Flat(trader)
    /\ obs.before.trades[1].capital_before = Rat(1000)
    /\ obs.before.total_fees = One
    /\ RGt(trader.total_fees, One)

(***************************************************************************)
(* C15: without fees and slippage the capital is the initial capital times *)
(* the product of (1 + pnl_i) over the returns recorded by the SELL        *)
(* records of the ledger (the records hold pnl_i in percent); for          *)
(* PaperTrader and for run_backtest, in every state and in the result.     *)
(***************************************************************************)
RECURSIVE ReturnProduct(_, _)
ReturnProduct(trades, k) ==
    IF k = 0 THEN One
    ELSE IF trades[k].action = "BUY" THEN ReturnProduct(trades, k - 1)
    ELSE RMul(ReturnProduct(trades, k - 1),
              RAdd(One, RDiv(trades[k].pnl, Rat(100))))

C15_CapitalConservation ==
    /\ Frictionless(trader) =>
          trader.capital = RMul(trader.initial_capital,
                                ReturnProduct(trader.trades, Len(trader.trades)))
    /\ bt.l.current_capital = RMul(bt.l.initial_capital,
                                   ReturnProduct(bt.l.trades, Len(bt.l.trades)))
    /\ bt.pc = "done" =>
          bt.result.final_capital = RMul(bt.result.initial_capital,
                                         ReturnProduct(bt.l.trades, Len(bt.l.trades)))
    /\ run.pc = "done" /\ run.perf # None /\ Frictionless(trader) =>
          run.perf.final_capital = RMul(trader.initial_capital,
                                        ReturnProduct(trader.trades, Len(trader.trades)))

C15_Witness ==
    /\ bt.pc = "done" /\ Len(bt.l.trades) = 4
    /\ bt.l.trades[2].action = "SELL" /\ bt.l.trades[2].pnl # Zero
    /\ bt.l.trades[4].action = "SELL (END)"
    /\ bt.l.current_capital # bt.l.initial_capital

(***************************************************************************)
(* C16: from one observation to the next while one position stays open,    *)
(* the tracked highest price never decreases and the tracked lowest price  *)
(* never increases (PaperTrader tracks the highest price only).            *)
(***************************************************************************)
C16_Step ==
    /\ Open(trader) /\ Open(trader') /\ Len(trader'.trades) = Len(trader.trades) =>
          RGeq(trader'.highest_price, trader.highest_price)
    /\ cs.l.position > 0 /\ cs'.l.position > 0 /\ Len(cs'.l.trades) = Len(cs.l.trades) =>
          /\ RGeq(strat'.highest_price, strat.highest_price)
          /\ RLeq(strat'.lowest_price, strat.lowest_price)

\* C16: every step keeps the tracked extremes of an open position monotone.
C16_MonotonePeaks == [][C16_Step]_vars

C16_Witness ==
    /\ obs.kind = "cs_bar" /\ obs.before.position > 0 /\ cs.l.position > 0
    /\ RGt(obs.before_self.highest_price, obs.before_self.entry_price)
    /\ RLt(strat.lowest_price, obs.before_self.lowest_price)
    /\ strat.highest_price = obs.before_self.highest_price

(***************************************************************************)
(* C17: in every reachable state, whatever the initial capital, the        *)
(* position quantity is 0 if and only if the entry price is 0, in          *)
(* PaperTrader and in run_backtest.                                        *)
(***************************************************************************)
C17_FlatIffNoEntry ==
    /\ trader.position = Zero <=> trader.entry_price = Zero
    /\ bt.l.position = Zero <=> bt.l.entry_price = Zero

(***************************************************************************)
(* C18: whenever a position is open, from the entry through every later    *)
(* observation, highest price since entry >= entry price >= lowest price   *)
(* since entry (PaperTrader tracks the highest price only).                *)
(***************************************************************************)
C18_EntryBracketed ==
    /\ Open(trader) => RGeq(trader.highest_price, trader.entry_price)
    /\ cs.l.position > 0 =>
          /\ RGeq(strat.highest_price, strat.entry_price)
          /\ RGeq(strat.entry_price, strat.lowest_price)

C18_Witness ==
    /\ cs.pc = "loop" /\ cs.l.position > 0
    /\ RGt(strat.highest_price, strat.entry_price)
    /\ RLt(strat.lowest_price, strat.entry_price)

(***************************************************************************)
(* C19: every polling cycle of PaperTrader.run, a cycle performing a       *)
(* take-profit or stop-loss exit included, waits once before the next      *)
(* price fetch: control reaches the fetch only from the start of run or    *)
(* from the wait, and a processed cycle always goes on to the wait (or is  *)
(* ended by an interrupt or an exception).                                 *)
(***************************************************************************)
C19_Step ==
    /\ run'.pc = "price" /\ run.pc # "price" => run.pc \in {"idle", "sleep"}
    /\ run.pc = "process" /\ run'.pc # "process" =>
          run'.pc \in {"sleep", "interrupted", "crashed"}

\* C19: no step of run reaches the next price fetch without the wait.
C19_WaitBetweenFetches == [][C19_Step]_vars

(***************************************************************************)
(* C20: cancellation of PaperTrader.run never takes effect inside a        *)
(* transaction: when the `except KeyboardInterrupt` block starts, total    *)
(* fees, position, entry price, capital, the risk counters and the ledger  *)
(* are those of a state reached after a whole number of completed buy and  *)
(* sell operations.                                                        *)
(***************************************************************************)
RECURSIVE LedgerFees(_, _)
LedgerFees(trades, k) ==
    IF k = 0 THEN Zero ELSE RAdd(LedgerFees(trades, k - 1), trades[k].fee)

\* What every state between two completed operations satisfies: the fees
\* and the counters are those of the ledger, and the position is the one of
\* the last record.
WholeOperations(self) ==
    LET n == Len(self.trades)
    IN /\ self.total_fees = LedgerFees(self.trades, n)
       /\ self.take_profit_count = CountSells(self.trades, {"TAKE_PROFIT"})
       /\ self.stop_loss_count =
             CountSells(self.trades, {"STOP_LOSS_FIXED", "STOP_LOSS_TRAILING"})
       /\ IF n > 0 /\ self.trades[n].action = "BUY"
          THEN /\ self.position = self.trades[n].amount
               /\ self.entry_price = self.trades[n].actual_price
               /\ RGeq(self.highest_price, self.entry_price)
               /\ self.capital = self.trades[n].capital_before
          ELSE /\ self.position = Zero
               /\ self.entry_price = Zero
               /\ self.highest_price = Zero
               /\ self.capital = IF n = 0 THEN self.initial_capital
                                 ELSE self.trades[n].capital

\* C20: the handler always starts on a state of whole operations.
C20_NoPartialTransaction == run.pc = "interrupted" => WholeOperations(trader)

(***************************************************************************)
(* C21: batch mode is deterministic: CryptoStrategy.backtest run twice in  *)
(* succession on the same strategy instance, on the same bars and signals  *)
(* and with the same configuration, returns the same trade list and the    *)
(* same result.                                                            *)
(***************************************************************************)
C21_RerunSameTrades ==
    cs.pc = "done2" => /\ cs.l.trades = cs.first.trades
                       /\ cs.result = cs.first.result

(***************************************************************************)
(* C22: the total_trades a driver reports is the number of BUY records of  *)
(* its ledger: the result of run_backtest, the performance PaperTrader.run *)
(* reports when it ends, and the complete event of run_paper_trading.      *)
(***************************************************************************)
CountBuys(trades) == Count(trades, LAMBDA t : t.action = "BUY")

C22_TotalTradesCountsBuys ==
    /\ bt.pc = "done" => bt.result.total_trades = CountBuys(bt.l.trades)
    /\ (run.pc = "done" /\ run.perf # None)
         => run.perf.total_trades = CountBuys(trader.trades)
    /\ pw.pc = "done"
         => pw.l.events[Len(pw.l.events)].total_trades = CountBuys(pw.l.trades)

\* A run that ended with a closed round trip in its ledger.
C22_Witness ==
    /\ run.pc = "done" /\ run.perf # None
    /\ Len(trader.trades) >= 2
    /\ trader.trades[2].action = "SELL"
    /\ run.perf.total_trades = 1

(***************************************************************************)
(* C23: in run_paper_trading the trade events printed to the observer and  *)
(* the records of the ledger correspond one to one, in order, the forced   *)
(* close after the loop included.                                          *)
(***************************************************************************)
TradeEvents(events) == SelectSeq(events, LAMBDA e : e.type = "trade")

C23_EventsMatchLedger ==
    LET printed == TradeEvents(pw.l.events)
    IN /\ Len(printed) = Len(pw.l.trades)
       /\ \A k \in 1..Len(printed) :
            /\ printed[k].action = pw.l.trades[k].action
            /\ printed[k].price = pw.l.trades[k].price
            /\ printed[k].time = pw.l.trades[k].time

\* The rows of calculate_signals carry no buy_signal or sell_signal, so the
\* replay neither opens a position nor prints a trade event.
C23_ReplayNeverTrades ==
    /\ pw.l.position = None
    /\ pw.l.trades = <<>>
    /\ TradeEvents(pw.l.events) = <<>>

C25_TogglesHonoured ==
    /\ ~trader.enable_stop_loss =>
          /\ trader.stop_loss_count = 0
          /\ CountSells(trader.trades, {"STOP_LOSS_FIXED", "STOP_LOSS_TRAILING"}) = 0
    /\ ~trader.enable_take_profit =>
          /\ trader.take_profit_count = 0
          /\ CountSells(trader.trades, {"TAKE_PROFIT"}) = 0
    /\ ~cs.l.enable_stop_loss =>
          /\ cs.l.stop_loss_count = 0
          /\ CountSells(cs.l.trades, {"STOP_LOSS"}) = 0
    /\ ~cs.l.enable_take_profit =>
          /\ cs.l.take_profit_count = 0
          /\ CountSells(cs.l.trades, {"TAKE_PROFIT"}) = 0
    /\ /\ TraderOpenCycle /\ TraderOneSell
       /\ LastTrade(trader.trades).reason = "STOP_LOSS_TRAILING"
       => obs.before.enable_stop_loss
    /\ /\ StrategyOpenBar /\ StrategyOneSell
       /\ LastTrade(cs.l.trades).reason = "STOP_LOSS"
       /\ ~FixedStopHolds(obs.before_self.entry_price, Rat(obs.bar.close),
                          obs.before_self.stop_loss_rate)
       => obs.before.enable_stop_loss /\ obs.before_self.trailing_stop

\* A bar of a backtest with stop-loss disabled on which the fixed stop
\* holds: the position stays open and nothing is counted.
C25_Witness ==
    /\ StrategyOpenBar /\ ~obs.before.enable_stop_loss
    /\ FixedStopHolds(obs.before_self.entry_price, Rat(obs.bar.close),
                      obs.before_self.stop_loss_rate)
    /\ cs.l.position > 0
    /\ cs.l.stop_loss_count = 0

(***************************************************************************)
(* C26: in CryptoStrategy.backtest, at the end of every processed bar the  *)
(* local position flag of the loop and self.position of the strategy       *)
(* agree: one is open exactly when the other is, also after a take-profit  *)
(* or stop-loss exit.                                                      *)
(***************************************************************************)
C26_PositionFlagsAgree ==
    obs.kind = "cs_bar" => ((cs.l.position > 0) <=> (strat.position > 0))

(***************************************************************************)
(* C27: after any sequence of operations the ledger alternates BUY, SELL,  *)
(* BUY, ... starting with a BUY, and a position is open exactly when the   *)
(* last record is a BUY; so the record a sell reads for capital_before is  *)
(* the BUY that opened the position it closes.                             *)
(***************************************************************************)
Alternates(trades) ==
    \A k \in 1..Len(trades) :
        IF k % 2 = 1 THEN trades[k].action = "BUY"
        ELSE trades[k].action \in {"SELL", "SELL (END)"}

LastIsBuy(trades) == trades # <<>> /\ LastTrade(trades).action = "BUY"

C27_LedgerAlternates ==
    /\ Alternates(trader.trades)
    /\ Open(trader) <=> LastIsBuy(trader.trades)
    /\ Alternates(bt.l.trades)
    /\ bt.pc = "loop" => (RGt(bt.l.position, Zero) <=> LastIsBuy(bt.l.trades))
    /\ (ret.op = "sell" /\ ret.result) => LastIsBuy(ret.before.trades)

(***************************************************************************)
(* C28: after every completed buy or sell of PaperTrader total_fees is the *)
(* sum of the fee fields of the ledger records, and no step decreases      *)
(* total_fees.                                                             *)
(***************************************************************************)
C28_FeesOfLedger == trader.total_fees = LedgerFees(trader.trades, Len(trader.trades))

C28_Monotone == RGeq(trader'.total_fees, trader.total_fees)

C28_TotalFees == []C28_FeesOfLedger /\ [][C28_Monotone]_vars

\* A round trip with fees: both the BUY and the SELL paid a fee.
C28_Witness ==
    /\ trader.enable_fees
    /\ Len(trader.trades) = 2
    /\ RGt(trader.trades[1].fee, Zero) /\ RGt(trader.trades[2].fee, Zero)
    /\ RGt(trader.total_fees, trader.trades[1].fee)

(***************************************************************************)
(* C29: every processed bar appends at most one record to the ledger, in   *)
(* every driver, the last bar of a batch run with its forced close         *)
(* included; so no two records of a ledger carry the same bar timestamp.   *)
(***************************************************************************)
DistinctTimes(trades) ==
    \A j, k \in 1..Len(trades) : j # k => trades[j].time # trades[k].time

C29_OneRecordPerBar ==
    /\ Len(bt.l.trades) <= bt.i /\ DistinctTimes(bt.l.trades)
    /\ Len(cs.l.trades) <= cs.i /\ DistinctTimes(cs.l.trades)
    /\ Len(pw.l.trades) <= pw.i /\ DistinctTimes(pw.l.trades)
    /\ obs.kind = "cycle" => Len(trader.trades) <= Len(obs.before.trades) + 1

(***************************************************************************)
(* C30: for a PaperTrader with initial capital > 0, fee and slippage rates *)
(* in [0, 1) and prices > 0, capital is strictly positive after any        *)
(* sequence of buys and sells; every buy opens a strictly positive         *)
(* quantity.                                                               *)
(***************************************************************************)
RatesBelowOne(self) ==
    /\ RGeq(PaperTrader_get_fee_rate(self), Zero) /\ RLt(PaperTrader_get_fee_rate(self), One)
    /\ RGeq(self.slippage_rate, Zero) /\ RLt(self.slippage_rate, One)

C30_CapitalPositive ==
    (RGt(trader.initial_capital, Zero) /\ RatesBelowOne(trader))
      => /\ RGt(trader.capital, Zero)
         /\ (ret.op = "buy" /\ ret.result) => RGt(trader.position, Zero)

\* A losing round trip with fees: capital fell below the initial capital.
C30_Witness ==
    /\ trader.enable_fees /\ RatesBelowOne(trader)
    /\ Len(trader.trades) = 2 /\ trader.trades[2].action = "SELL"
    /\ RLt(trader.trades[2].pnl_amount, Zero)
    /\ RLt(trader.capital, trader.initial_capital)
    /\ RGt(trader.capital, Zero)

====
